---- MODULE Spec2Model ----
(***************************************************************************)
(* A model of src/backend/optimizer/plan/createplan.c: the conversion of   *)
(* the optimizer's chosen Path tree into a Plan tree.                       *)
(*                                                                         *)
(* Expression nodes carry an identity (the field id, standing for the      *)
(* node's address) next to their structure, so that sharing, copying and   *)
(* pointer comparison are visible.  Target lists live in a heap (tlists),  *)
(* because the code appends to them destructively through aliases.         *)
(***************************************************************************)
EXTENDS Integers, Sequences, FiniteSets, TLC

VARIABLES
    hasSubLinks,   \* root->hasSubLinks
    rels,          \* RelOptInfo of every relation, by rel index
    paths,         \* the Path nodes, by path id
    best_path,     \* the path id handed to create_plan
    tlists,        \* heap of target lists: list id -> sequence of TargetEntry
    plans,         \* heap of Plan nodes: plan id -> Plan
    done,          \* number of path nodes of the post-order already planned
    status,        \* "planning", "returned" or "error" (elog(ERROR) was raised)
    tlists0,       \* the target-list heap as it was when create_plan was called
    limitOffset,   \* root->limitOffset, the OFFSET expression of the query
    limitCount     \* root->limitCount, the LIMIT expression of the query

vars == <<hasSubLinks, rels, paths, best_path, tlists, plans, done, status, tlists0,
          limitOffset, limitCount>>

-----------------------------------------------------------------------------
(* Bounds of the model *)

\* most sublists (index scans) in an IndexPath's indexqual
MaxSublists == 2

\* most clauses in all the sublists of an IndexPath's indexqual together
MaxQuals == 2

-----------------------------------------------------------------------------
(* Program constants *)

InvalidOid == 0

NIL == 0

-----------------------------------------------------------------------------
(* Expression nodes *)

MkNode(id, tag, varno, varattno, opno, type, args) ==
    [id |-> id, tag |-> tag, varno |-> varno, varattno |-> varattno,
     opno |-> opno, opfuncid |-> InvalidOid, type |-> type, args |-> args]

\* the address of a node of the original Path tree
OrigId(k) == <<k>>

\* the address of a node allocated while planning path p, at sublist i,
\* clause j, by allocation site s
SiteNo ==
    [newclause |-> 1, recheck |-> 2, operand |-> 3, andclause |-> 4,
     orclause |-> 5, orcopy |-> 6, boolconst |-> 7, switched |-> 8,
     sorttlist |-> 9, resulttlist |-> 10]

Gen(p, i, j, s) == <<p, i, j, s>>

RECURSIVE copyObject(_, _)
\* structural deep copy: every node of the copy is a new node
copyObject(n, g) ==
    [n EXCEPT !.id = g \o n.id,
              !.args = [x \in 1 .. Len(n.args) |-> copyObject(n.args[x], g)]]

RECURSIVE Strip(_)
\* the structure of a node without the addresses
Strip(n) ==
    [tag |-> n.tag, varno |-> n.varno, varattno |-> n.varattno,
     opno |-> n.opno, type |-> n.type,
     args |-> [x \in 1 .. Len(n.args) |-> Strip(n.args[x])]]

\* equal(): structural equality of two node trees
equal(a, b) == Strip(a) = Strip(b)

RECURSIVE NodeIds(_)
\* the addresses of all nodes reachable from n
NodeIds(n) ==
    {n.id} \cup UNION {NodeIds(n.args[x]) : x \in 1 .. Len(n.args)}

RECURSIVE pull_varnos(_)
pull_varnos(n) ==
    IF n.tag = "Var"
    THEN {n.varno}
    ELSE UNION {pull_varnos(n.args[x]) : x \in 1 .. Len(n.args)}

RECURSIVE contain_subplans(_)
contain_subplans(n) ==
    \/ n.tag = "SubPlan"
    \/ \E x \in 1 .. Len(n.args) : contain_subplans(n.args[x])

exprType(n) == n.type

get_leftop(clause) == clause.args[1]

get_rightop(clause) == clause.args[2]

-----------------------------------------------------------------------------
(* Sequence helpers *)

SeqIds(s) == UNION {NodeIds(s[x]) : x \in 1 .. Len(s)}

RECURSIVE Flatten(_)
Flatten(ss) ==
    IF ss = <<>> THEN <<>> ELSE Head(ss) \o Flatten(Tail(ss))

Range(s) == {s[x] : x \in 1 .. Len(s)}

-----------------------------------------------------------------------------
(* Catalog and expression helpers used by createplan.c *)

\* the operators of the catalog
Ops == {21, 22}

\* get_commutator(): 21 and 22 are each other's commutator
get_commutator(opno) == IF opno = 21 THEN 22 ELSE 21

\* pg_amop.amopreqcheck: the (operator, opclass) pairs the index is lossy for
LossyOps == {<<22, 10>>, <<21, 11>>, <<21, 13>>, <<22, 13>>}

op_requires_recheck(opno, opclass) == <<opno, opclass>> \in LossyOps

\* CommuteClause(): swap the operands in place, install the commutator and
\* clear the cached function id
CommuteClause(clause) ==
    [clause EXCEPT !.opno = get_commutator(clause.opno),
                   !.opfuncid = InvalidOid,
                   !.args = <<clause.args[2], clause.args[1]>>]

makeVar(id, varno, varattno, vartype) ==
    MkNode(id, "Var", varno, varattno, 0, vartype, <<>>)

make_andclause(id, andclauses) ==
    MkNode(id, "And", 0, 0, 0, 16, andclauses)

make_orclause(id, orclauses) ==
    MkNode(id, "Or", 0, 0, 0, 16, orclauses)

\* make_ands_explicit(): the conjunction of a sublist as one expression
make_ands_explicit(andclauses, andid, constid) ==
    IF andclauses = <<>>
    THEN MkNode(constid, "Const", 0, 0, 0, 16, <<>>)
    ELSE IF Len(andclauses) = 1
         THEN andclauses[1]
         ELSE make_andclause(andid, andclauses)

\* member of a list by pointer
ptrMember(n, l) == \E y \in 1 .. Len(l) : l[y].id = n.id

\* a set_difference() whose membership test is equal(), not identity
set_difference_equal(l1, l2) ==
    SelectSeq(l1, LAMBDA c : ~\E y \in 1 .. Len(l2) : equal(c, l2[y]))

\* set_difference(): the members of l1 that are not in l2, in l1's order,
\* as a new list; membership is by pointer identity
set_difference(l1, l2) == SelectSeq(l1, LAMBDA c : ~ptrMember(c, l2))

\* get_actual_clauses(): a new list of the bare clauses of RestrictInfos
get_actual_clauses(restrictinfo_list) ==
    [x \in 1 .. Len(restrictinfo_list) |-> restrictinfo_list[x].clause]

is_subseti(a, b) == a \subseteq b

NumRelids(clauselists) ==
    Cardinality(UNION {pull_varnos(c) : c \in Range(Flatten(clauselists))})

-----------------------------------------------------------------------------
(* Plan and Path nodes *)

\* a NULL Node pointer
NullNode == [tag |-> "NULL"]

\* a NULL Plan pointer held in a field that owns a plan
NullPlan == [tag |-> "NULL"]

\* makeNode(): a zero-filled plan node of the given tag
EmptyPlan(tag) ==
    [tag |-> tag, targetlist |-> NIL, qual |-> <<>>,
     lefttree |-> 0, righttree |-> 0,
     startup_cost |-> 0, total_cost |-> 0, plan_rows |-> 0, plan_width |-> 0,
     scanrelid |-> 0, indxid |-> <<>>, indxqual |-> <<>>,
     indxqualorig |-> <<>>, indxorderdir |-> 0,
     jointype |-> "JOIN_INNER", joinqual |-> <<>>,
     mergeclauses |-> <<>>, hashclauses |-> <<>>, hashkeys |-> <<>>,
     keycount |-> 0, resconstantqual |-> <<>>,
     appendplans |-> <<>>, isTarget |-> FALSE,
     tideval |-> <<>>, subplan |-> NullPlan,
     limitOffset |-> NullNode, limitCount |-> NullNode]

EmptyPath(pathtype, parent) ==
    [pathtype |-> pathtype, parent |-> parent,
     startup_cost |-> 0, total_cost |-> 0, rows |-> 0,
     indexinfo |-> <<>>, indexqual |-> <<>>, indexscandir |-> 0,
     jointype |-> "JOIN_INNER", outerjoinpath |-> 0, innerjoinpath |-> 0,
     joinrestrictinfo |-> <<>>,
     path_mergeclauses |-> <<>>, outersortkeys |-> <<>>,
     innersortkeys |-> <<>>, path_hashclauses |-> <<>>,
     subpaths |-> <<>>,
     tideval |-> <<>>, constantqual |-> <<>>, subpath |-> 0]

ScanTypes ==
    {"T_SeqScan", "T_IndexScan", "T_TidScan", "T_SubqueryScan",
     "T_FunctionScan"}

JoinTypes == {"T_NestLoop", "T_MergeJoin", "T_HashJoin"}

\* the path tags create_plan() has a case for
PlanTypes == ScanTypes \cup JoinTypes \cup {"T_Append", "T_Result", "T_Material"}

copy_path_costsize(dest, src) ==
    [dest EXCEPT !.startup_cost = src.startup_cost,
                 !.total_cost = src.total_cost,
                 !.plan_rows = rels[src.parent].rows,
                 !.plan_width = rels[src.parent].width]

copy_plan_costsize(dest, src) ==
    IF src # NullPlan
    THEN [dest EXCEPT !.startup_cost = src.startup_cost,
                      !.total_cost = src.total_cost,
                      !.plan_rows = src.plan_rows,
                      !.plan_width = src.plan_width]
    ELSE [dest EXCEPT !.startup_cost = 0, !.total_cost = 0,
                      !.plan_rows = 0, !.plan_width = 0]

-----------------------------------------------------------------------------
(* Clause utilities *)

\* the expression refers to a SubPlan or to the output of an InitPlan
RECURSIVE contain_subplans_or_params(_)
contain_subplans_or_params(n) ==
    \/ n.tag \in {"SubPlan", "Param"}
    \/ \E x \in 1 .. Len(n.args) : contain_subplans_or_params(n.args[x])

\* an order_qual_clauses() that also puts clauses last that only refer to
\* an InitPlan
order_qual_clauses_initplans(root_hasSubLinks, clauses) ==
    IF ~root_hasSubLinks
    THEN clauses
    ELSE SelectSeq(clauses, LAMBDA c : ~contain_subplans_or_params(c))
         \o SelectSeq(clauses, LAMBDA c : contain_subplans_or_params(c))

\* an order_qual_clauses() that puts the clauses with a SubPlan reference
\* last in reverse order
order_qual_clauses_reversed(root_hasSubLinks, clauses) ==
    IF ~root_hasSubLinks
    THEN clauses
    ELSE LET with == SelectSeq(clauses, LAMBDA c : contain_subplans(c))
         IN  SelectSeq(clauses, LAMBDA c : ~contain_subplans(c))
             \o [x \in 1 .. Len(with) |-> with[Len(with) + 1 - x]]

\* order_qual_clauses(): clauses with a SubPlan reference go last
order_qual_clauses(root_hasSubLinks, clauses) ==
    IF ~root_hasSubLinks
    THEN clauses
    ELSE SelectSeq(clauses, LAMBDA c : ~contain_subplans(c))
         \o SelectSeq(clauses, LAMBDA c : contain_subplans(c))

-----------------------------------------------------------------------------
(* Index-qual rewriter *)

fix_indxqual_operand_norenumber(node, baserelid, index, g) ==
    LET node1 == IF node.tag = "RelabelType" THEN node.args[1] ELSE node
    IN  IF node1.tag = "Var"
        THEN [err |-> FALSE, node |-> copyObject(node1, g),
              opclass |-> index.classlist[1]]
        ELSE [err |-> FALSE,
              node |-> makeVar(g, baserelid, 1, exprType(node1)),
              opclass |-> index.classlist[1]]

\* fix_indxqual_operand(): the index-position Var that replaces the index
\* key operand, and the opclass of that index column; err when a Var is not
\* a key of the index
fix_indxqual_operand(node, baserelid, index, g) ==
    LET node1 == IF node.tag = "RelabelType" THEN node.args[1] ELSE node
    IN  IF node1.tag = "Var"
        THEN LET hits == {pos \in 1 .. index.nkeys :
                             index.indexkeys[pos] = node1.varattno}
             IN  IF node1.varno = baserelid /\ hits # {}
                 THEN LET pos == CHOOSE q \in hits : \A r \in hits : q <= r
                      IN  [err |-> FALSE,
                           node |-> [copyObject(node1, g)
                                        EXCEPT !.varattno = pos],
                           opclass |-> index.classlist[pos]]
                 ELSE [err |-> TRUE, node |-> node1, opclass |-> InvalidOid]
        ELSE [err |-> FALSE,
              node |-> makeVar(g, baserelid, 1, exprType(node1)),
              opclass |-> index.classlist[1]]

fix_indxqual_clause_norecheck(clause, baserelid, index, p, i, j) ==
    IF clause.tag # "OpExpr" \/ Len(clause.args) # 2
    THEN [err |-> TRUE, fixed |-> clause, recheck |-> <<>>]
    ELSE LET newclause == copyObject(clause, Gen(p, i, j, SiteNo.newclause))
             commuted ==
                 IF pull_varnos(newclause.args[1]) # {baserelid}
                 THEN CommuteClause(newclause)
                 ELSE newclause
             opnd == fix_indxqual_operand(commuted.args[1], baserelid, index,
                                          Gen(p, i, j, SiteNo.operand))
         IN  [err |-> opnd.err,
              fixed |-> [commuted EXCEPT !.args[1] = opnd.node],
              recheck |-> <<>>]

\* a fix_indxqual_clause() that looks the lossiness up with the operator of
\* the original clause
fix_indxqual_clause_origop(clause, baserelid, index, p, i, j) ==
    IF clause.tag # "OpExpr" \/ Len(clause.args) # 2
    THEN [err |-> TRUE, fixed |-> clause, recheck |-> <<>>]
    ELSE LET newclause == copyObject(clause, Gen(p, i, j, SiteNo.newclause))
             commuted ==
                 IF pull_varnos(newclause.args[1]) # {baserelid}
                 THEN CommuteClause(newclause)
                 ELSE newclause
             opnd == fix_indxqual_operand(commuted.args[1], baserelid, index,
                                          Gen(p, i, j, SiteNo.operand))
         IN  [err |-> opnd.err,
              fixed |-> [commuted EXCEPT !.args[1] = opnd.node],
              recheck |->
                  IF ~opnd.err /\ op_requires_recheck(clause.opno, opnd.opclass)
                  THEN <<copyObject(clause, Gen(p, i, j, SiteNo.recheck))>>
                  ELSE <<>>]

\* the body of the loop of fix_indxqual_sublist(): the fixed form of one
\* clause and, when the index is lossy for its operator, a copy of the
\* original clause to recheck
fix_indxqual_clause(clause, baserelid, index, p, i, j) ==
    IF clause.tag # "OpExpr" \/ Len(clause.args) # 2
    THEN [err |-> TRUE, fixed |-> clause, recheck |-> <<>>]
    ELSE LET newclause == copyObject(clause, Gen(p, i, j, SiteNo.newclause))
             commuted ==
                 IF pull_varnos(newclause.args[1]) # {baserelid}
                 THEN CommuteClause(newclause)
                 ELSE newclause
             opnd == fix_indxqual_operand(commuted.args[1], baserelid, index,
                                          Gen(p, i, j, SiteNo.operand))
             fixed == [commuted EXCEPT !.args[1] = opnd.node]
         IN  [err |-> opnd.err,
              fixed |-> fixed,
              recheck |->
                  IF ~opnd.err /\ op_requires_recheck(fixed.opno, opnd.opclass)
                  THEN <<copyObject(clause, Gen(p, i, j, SiteNo.recheck))>>
                  ELSE <<>>]

\* fix_indxqual_sublist(): the sublist of one index scan
fix_indxqual_sublist(indexqual, baserelid, index, p, i) ==
    LET one(j) == fix_indxqual_clause(indexqual[j], baserelid, index, p, i, j)
    IN  [err |-> \E j \in 1 .. Len(indexqual) : one(j).err,
         fixed_quals |-> [j \in 1 .. Len(indexqual) |-> one(j).fixed],
         recheck_quals |->
             Flatten([j \in 1 .. Len(indexqual) |-> one(j).recheck])]

fix_indxqual_references_skipempty(indexquals, index_path, p) ==
    LET baserelid == CHOOSE r \in rels[index_path.parent].relids : TRUE
        sub(i) == fix_indxqual_sublist(indexquals[i], baserelid,
                                       index_path.indexinfo[i], p, i)
    IN  [err |-> \E i \in 1 .. Len(indexquals) : sub(i).err,
         fixed_indexquals |->
             SelectSeq([i \in 1 .. Len(indexquals) |-> sub(i).fixed_quals],
                       LAMBDA l : l # <<>>),
         recheck_indexquals |->
             SelectSeq([i \in 1 .. Len(indexquals) |-> sub(i).recheck_quals],
                       LAMBDA l : l # <<>>)]

\* fix_indxqual_references(): one fixed sublist per sublist of the indexqual,
\* the i-th rewritten against the i-th index of the path; the recheck list
\* keeps only the non-empty recheck sublists
fix_indxqual_references(indexquals, index_path, p) ==
    LET baserelid == CHOOSE r \in rels[index_path.parent].relids : TRUE
        sub(i) == fix_indxqual_sublist(indexquals[i], baserelid,
                                       index_path.indexinfo[i], p, i)
    IN  [err |-> \E i \in 1 .. Len(indexquals) : sub(i).err,
         fixed_indexquals |->
             [i \in 1 .. Len(indexquals) |-> sub(i).fixed_quals],
         recheck_indexquals |->
             SelectSeq([i \in 1 .. Len(indexquals) |-> sub(i).recheck_quals],
                       LAMBDA l : l # <<>>)]

-----------------------------------------------------------------------------
(* Scan plans *)

make_seqscan(qptlist, qpqual, scanrelid) ==
    [EmptyPlan("SeqScan") EXCEPT !.targetlist = qptlist,
                                 !.qual = qpqual,
                                 !.scanrelid = scanrelid]

make_indexscan(qptlist, qpqual, scanrelid, indxid, indxqual, indxqualorig, indexscandir) ==
    [EmptyPlan("IndexScan") EXCEPT !.targetlist = qptlist,
                                   !.qual = qpqual,
                                   !.scanrelid = scanrelid,
                                   !.indxid = indxid,
                                   !.indxqual = indxqual,
                                   !.indxqualorig = indxqualorig,
                                   !.indxorderdir = indexscandir]

make_tidscan(qptlist, qpqual, scanrelid, tideval) ==
    [EmptyPlan("TidScan") EXCEPT !.targetlist = qptlist,
                                 !.qual = qpqual,
                                 !.scanrelid = scanrelid,
                                 !.tideval = tideval]

make_subqueryscan(qptlist, qpqual, scanrelid, subplan) ==
    [copy_plan_costsize(EmptyPlan("SubqueryScan"), subplan)
        EXCEPT !.targetlist = qptlist,
               !.qual = qpqual,
               !.scanrelid = scanrelid,
               !.subplan = subplan]

make_functionscan(qptlist, qpqual, scanrelid) ==
    [EmptyPlan("FunctionScan") EXCEPT !.targetlist = qptlist,
                                      !.qual = qpqual,
                                      !.scanrelid = scanrelid]

\* lfirsti(relids) of a relation with one relid
FirstRelid(parent) == CHOOSE r \in rels[parent].relids : TRUE

create_tidscan_plan(path, tlist, scan_clauses) ==
    [err |-> FALSE,
     plan |-> copy_path_costsize(
                  make_tidscan(tlist, scan_clauses, FirstRelid(path.parent),
                               path.tideval),
                  path)]

\* a create_subqueryscan_plan() that copies the path's cost like the other
\* scan builders
create_subqueryscan_plan_pathcost(path, tlist, scan_clauses) ==
    [err |-> FALSE,
     plan |-> copy_path_costsize(
                  make_subqueryscan(tlist, scan_clauses,
                                    FirstRelid(path.parent),
                                    rels[path.parent].subplan),
                  path)]

create_subqueryscan_plan(path, tlist, scan_clauses) ==
    [err |-> FALSE,
     plan |-> make_subqueryscan(tlist, scan_clauses, FirstRelid(path.parent),
                                rels[path.parent].subplan)]

create_functionscan_plan(path, tlist, scan_clauses) ==
    [err |-> FALSE,
     plan |-> copy_path_costsize(
                  make_functionscan(tlist, scan_clauses,
                                    FirstRelid(path.parent)),
                  path)]

create_seqscan_plan(path, tlist, scan_clauses) ==
    LET scan_relid == CHOOSE r \in rels[path.parent].relids : TRUE
    IN  [err |-> FALSE,
         plan |-> copy_path_costsize(
                      make_seqscan(tlist, scan_clauses, scan_relid), path)]

\* the expression OR(AND(sublist 1), ..., AND(sublist n)) of an indexqual
indxqual_or_expr(indxqual, p) ==
    make_orclause(
        Gen(p, 0, 0, SiteNo.orclause),
        [i \in 1 .. Len(indxqual) |->
            make_ands_explicit(indxqual[i],
                               Gen(p, i, 0, SiteNo.andclause),
                               Gen(p, i, 0, SiteNo.boolconst))])

\* create_indexscan_plan(): the IndexScan of an IndexPath
create_indexscan_plan(path, p, tlist, scan_clauses) ==
    LET indxqual == path.indexqual
        baserelid == CHOOSE r \in rels[path.parent].relids : TRUE
        indexids == [x \in 1 .. Len(path.indexinfo) |->
                        path.indexinfo[x].indexoid]
        or_expr == indxqual_or_expr(indxqual, p)
        qpqual0 ==
            IF Len(indxqual) > 1
            THEN set_difference(scan_clauses, <<or_expr>>)
            ELSE IF indxqual # <<>>
                 THEN set_difference(scan_clauses, indxqual[1])
                 ELSE scan_clauses
        fix == fix_indxqual_references(indxqual, path, p)
        qpqual ==
            IF fix.recheck_indexquals # <<>>
            THEN IF Len(indxqual) > 1
                 THEN Append(qpqual0,
                             copyObject(or_expr, Gen(p, 0, 0, SiteNo.orcopy)))
                 ELSE qpqual0 \o fix.recheck_indexquals[1]
            ELSE qpqual0
        scan_plan == make_indexscan(tlist, qpqual, baserelid, indexids,
                                    fix.fixed_indexquals, indxqual,
                                    path.indexscandir)
    IN  [err |-> fix.err,
         plan |-> [copy_path_costsize(scan_plan, path)
                      EXCEPT !.plan_rows = path.rows]]

\* a create_scan_plan() that builds a SeqScan whatever the path is
create_scan_plan_seqonly(p) ==
    create_seqscan_plan(
        paths[p], rels[paths[p].parent].targetlist,
        order_qual_clauses(
            hasSubLinks,
            get_actual_clauses(rels[paths[p].parent].baserestrictinfo)))

\* a create_scan_plan() that hands back a plan even if the rewrite of the
\* index quals failed
create_scan_plan_noerr(p) ==
    [err |-> FALSE,
     plan |-> make_indexscan(rels[paths[p].parent].targetlist, <<>>,
                             FirstRelid(paths[p].parent), <<>>, <<>>,
                             paths[p].indexqual, paths[p].indexscandir)]

\* create_scan_plan(): the scan plan of path p
create_scan_plan(p) ==
    LET path == paths[p]
        tlist == rels[path.parent].targetlist
        scan_clauses ==
            order_qual_clauses(
                hasSubLinks,
                get_actual_clauses(rels[path.parent].baserestrictinfo))
    IN  CASE path.pathtype = "T_SeqScan" ->
                 create_seqscan_plan(path, tlist, scan_clauses)
          [] path.pathtype = "T_IndexScan" ->
                 create_indexscan_plan(path, p, tlist, scan_clauses)
          [] path.pathtype = "T_TidScan" ->
                 create_tidscan_plan(path, tlist, scan_clauses)
          [] path.pathtype = "T_SubqueryScan" ->
                 create_subqueryscan_plan(path, tlist, scan_clauses)
          [] path.pathtype = "T_FunctionScan" ->
                 create_functionscan_plan(path, tlist, scan_clauses)
          [] OTHER ->
                 [err |-> TRUE, plan |-> NullPlan]

-----------------------------------------------------------------------------
(* The traversal of create_plan() *)

RECURSIVE PostOrder(_)
RECURSIVE PostOrderAll(_)
\* the order in which create_plan() finishes the path nodes below p
PostOrder(p) ==
    IF paths[p].pathtype \in JoinTypes
    THEN PostOrder(paths[p].outerjoinpath)
         \o PostOrder(paths[p].innerjoinpath) \o <<p>>
    ELSE IF paths[p].pathtype = "T_Append"
         THEN PostOrderAll(paths[p].subpaths) \o <<p>>
         ELSE IF paths[p].pathtype \in {"T_Result", "T_Material"}
                 /\ paths[p].subpath # 0
              THEN PostOrder(paths[p].subpath) \o <<p>>
              ELSE <<p>>

PostOrderAll(ps) ==
    IF ps = <<>> THEN <<>> ELSE PostOrder(Head(ps)) \o PostOrderAll(Tail(ps))

\* the path node create_plan() finishes next
NextPath == PostOrder(best_path)[done + 1]

Finish(p) == IF p = best_path THEN "returned" ELSE "planning"

\* create_plan() on a scan path
CreateScanPlan ==
    /\ status = "planning"
    /\ paths[NextPath].pathtype \in ScanTypes
    /\ LET p == NextPath
           r == create_scan_plan(p)
       IN  IF r.err
           THEN /\ status' = "error"
                /\ UNCHANGED <<plans, done>>
           ELSE /\ plans' = (p :> r.plan) @@ plans
                /\ done' = done + 1
                /\ status' = Finish(p)
    /\ UNCHANGED <<hasSubLinks, rels, paths, best_path, tlists, tlists0,
                   limitOffset, limitCount>>

\* create_plan() on a path whose tag it has no case for
CreatePlanUnknown ==
    /\ status = "planning"
    /\ paths[NextPath].pathtype \notin PlanTypes
    /\ status' = "error"
    /\ UNCHANGED <<hasSubLinks, rels, paths, best_path, tlists, plans, done,
                   tlists0,
                   limitOffset, limitCount>>

-----------------------------------------------------------------------------
(* The inputs: relations, indexes and clauses the Path trees are built from *)

\* rel index 1 is the outer base relation (relid 1), rel index 2 the inner
\* base relation (relid 2), the relation index scans are on, and rel index 3
\* their join
Relids == <<1, 2, 3, 4, 5>>

OuterRelid == Relids[1]

BaseRelid == Relids[2]

\* relid of the inheritance child of the outer relation, rel index 4
ChildRelid == Relids[3]

\* relids of a subquery and of a function in the range table
SubqueryRelid == Relids[4]

FunctionRelid == Relids[5]

\* the indexes of the inner base relation: a two-column index, a one-column
\* index and a functional index
IndexCatalog ==
    << [indexoid |-> 100, nkeys |-> 2, indexkeys |-> <<5, 7>>,
        classlist |-> <<10, 11>>, indproc |-> InvalidOid],
       [indexoid |-> 101, nkeys |-> 1, indexkeys |-> <<7>>,
        classlist |-> <<12>>, indproc |-> InvalidOid],
       [indexoid |-> 102, nkeys |-> 1, indexkeys |-> <<5>>,
        classlist |-> <<13>>, indproc |-> 77] >>

\* the index of the i-th scan of an IndexPath whose first index is ixstart
IndexAt(ixstart, i) ==
    IndexCatalog[((ixstart + i - 2) % Len(IndexCatalog)) + 1]

RestrictInfoOf(clause, ispusheddown) ==
    [clause |-> clause, ispusheddown |-> ispusheddown,
     left_relids |->
         IF Len(clause.args) = 2 THEN pull_varnos(clause.args[1]) ELSE {},
     right_relids |->
         IF Len(clause.args) = 2 THEN pull_varnos(clause.args[2]) ELSE {}]

\* a binary operator clause of the Path tree; the planner has looked up and
\* cached the operator's function
OpClause(k, opno, left, right) ==
    [MkNode(OrigId(k), "OpExpr", 0, 0, opno, 16, <<left, right>>)
        EXCEPT !.opfuncid = 1000 + opno]

\* the index key operand of an index clause: a plain Var, a relabelled Var
\* or a function of a Var of the base relation
KeyOperand(k, form, att) ==
    IF form = "Var"
    THEN makeVar(OrigId(k), BaseRelid, att, 23)
    ELSE MkNode(OrigId(k), form, 0, 0, 0, 20,
                <<makeVar(OrigId(k + 1), BaseRelid, att, 23)>>)

\* the other operand: a constant or a Var of the outer relation
OtherOperand(k, other) ==
    IF other = "Const"
    THEN MkNode(OrigId(k), "Const", 0, 0, 0, 23, <<>>)
    ELSE makeVar(OrigId(k), OuterRelid, 1, 23)

KeyForms ==
    {<<"Var", 5>>, <<"Var", 7>>, <<"RelabelType", 7>>, <<"FuncExpr", 5>>}

ClauseDescs == [key : KeyForms, keyLeft : BOOLEAN, opno : Ops]

\* the c-th index clause of a path, built from its description
IndexClause(c, d, other) ==
    LET key == KeyOperand(10 * c + 1, d.key[1], d.key[2])
        oth == OtherOperand(10 * c + 3, other)
    IN  OpClause(10 * c, d.opno,
                 IF d.keyLeft THEN key ELSE oth,
                 IF d.keyLeft THEN oth ELSE key)

\* a restriction clause no index handles, with or without a SubPlan
ExtraClause(k, withSubPlan) ==
    OpClause(k, 21, makeVar(OrigId(k + 1), BaseRelid, 9, 23),
             MkNode(OrigId(k + 2),
                    IF withSubPlan THEN "SubPlan" ELSE "Const",
                    0, 0, 0, 23, <<>>))

TargetEntryOf(resno, reskey, reskeyop, resjunk, expr) ==
    [resdom |-> [resno |-> resno, restype |-> exprType(expr),
                 reskey |-> reskey, reskeyop |-> reskeyop,
                 resjunk |-> resjunk],
     expr |-> expr]

RelOptInfoOf(relids, targetlist, baserestrictinfo, rows, width) ==
    [relids |-> relids, rtekind |-> "RTE_RELATION",
     targetlist |-> targetlist, baserestrictinfo |-> baserestrictinfo,
     rows |-> rows, width |-> width, subplan |-> NullPlan]

\* the target lists of the three relations
BaseTlists ==
    (1 :> <<TargetEntryOf(1, 0, 0, FALSE,
                          makeVar(OrigId(501), OuterRelid, 1, 23))>>)
    @@ (2 :> <<TargetEntryOf(1, 0, 0, FALSE,
                             makeVar(OrigId(502), BaseRelid, 5, 23))>>)
    @@ (3 :> <<TargetEntryOf(1, 0, 0, FALSE,
                             makeVar(OrigId(503), OuterRelid, 1, 23)),
               TargetEntryOf(2, 0, 0, FALSE,
                             makeVar(OrigId(504), BaseRelid, 5, 23))>>)

\* the indexqual of an IndexPath: clause c goes to sublist subOf[c]
IndexQualOf(nsub, descs, subOf, other) ==
    [i \in 1 .. nsub |->
        LET cs == SelectSeq([c \in 1 .. Len(descs) |-> c],
                            LAMBDA c : subOf[c] = i)
        IN  [x \in 1 .. Len(cs) |-> IndexClause(cs[x], descs[cs[x]], other)]]

\* the restriction clause an OR-of-indexscans indexqual was generated from
OrRestriction(indexqual) ==
    MkNode(OrigId(920), "Or", 0, 0, 0, 16,
           [i \in 1 .. Len(indexqual) |->
               IF Len(indexqual[i]) = 1
               THEN indexqual[i][1]
               ELSE IF indexqual[i] = <<>>
                    THEN MkNode(OrigId(940 + i), "Const", 0, 0, 0, 16, <<>>)
                    ELSE MkNode(OrigId(930 + i), "And", 0, 0, 0, 16,
                                indexqual[i])])

\* baserestrictinfo of the indexed relation: the restriction clauses the
\* indexqual was generated from (none when the index clauses are join
\* clauses) among clauses the index does not handle
BaseRestrictInfoOf(indexqual, other, hsl) ==
    LET restr ==
            IF other # "Const" \/ indexqual = <<>>
            THEN <<>>
            ELSE IF Len(indexqual) > 1
                 THEN <<OrRestriction(indexqual)>>
                 ELSE indexqual[1]
        all == (IF hsl THEN <<ExtraClause(900, TRUE)>> ELSE <<>>)
               \o restr \o <<ExtraClause(910, FALSE)>>
    IN  [x \in 1 .. Len(all) |-> RestrictInfoOf(all[x], FALSE)]

IndexPathOf(nsub, ixstart, indexqual) ==
    [EmptyPath("T_IndexScan", 2) EXCEPT
        !.startup_cost = 1, !.total_cost = 10, !.rows = 7,
        !.indexinfo = [i \in 1 .. nsub |-> IndexAt(ixstart, i)],
        !.indexqual = indexqual,
        !.indexscandir = 1]

\* the key of every clause of a sublist is of the kind its index has: a
\* function for a functional index, a Var otherwise
KeysFitIndexes(descs, subOf, ixstart) ==
    \A c \in 1 .. Len(descs) :
        (descs[c].key[1] = "FuncExpr")
            <=> (IndexAt(ixstart, subOf[c]).indproc # InvalidOid)

NonDecreasing(f, n) == \A c \in 1 .. n - 1 : f[c] <= f[c + 1]

-----------------------------------------------------------------------------
(* create_plan() on an IndexPath *)

InitIndex ==
    \E nsub \in 0 .. MaxSublists, ixstart \in 1 .. Len(IndexCatalog),
       other \in {"Const", "OuterVar"}, hsl \in BOOLEAN :
      \E n \in 0 .. MaxQuals :
        /\ nsub = 0 => n = 0
        /\ \E subOf \in {f \in [1 .. n -> 1 .. nsub] : NonDecreasing(f, n)} :
            \E descs \in {d \in [1 .. n -> ClauseDescs] :
                             KeysFitIndexes(d, subOf, ixstart)} :
              LET indexqual == IndexQualOf(nsub, descs, subOf, other)
              IN  /\ hasSubLinks = hsl
                  /\ rels = (1 :> RelOptInfoOf({OuterRelid}, 1, <<>>, 50, 8))
                         @@ (2 :> RelOptInfoOf(
                                     {BaseRelid}, 2,
                                     BaseRestrictInfoOf(indexqual, other, hsl),
                                     100, 40))
                         @@ (3 :> RelOptInfoOf({OuterRelid, BaseRelid}, 3,
                                               <<>>, 500, 48))
                  /\ paths = (2 :> IndexPathOf(nsub, ixstart, indexqual))
                  /\ best_path = 2
                  /\ tlists = BaseTlists
                  /\ tlists0 = BaseTlists
                  /\ limitOffset = NullNode
                  /\ limitCount = NullNode
                  /\ plans = <<>>
                  /\ done = 0
                  /\ status = "planning"

NextIndex == CreateScanPlan

SpecIndex == InitIndex /\ [][NextIndex]_vars

-----------------------------------------------------------------------------
(* Join clause utilities *)

\* get_actual_join_clauses(): the bare clauses of the RestrictInfos of an
\* outer join, split into the join's own quals and the pushed-down ones
get_actual_join_clauses(restrictinfo_list) ==
    [joinquals |->
         get_actual_clauses(SelectSeq(restrictinfo_list,
                                      LAMBDA ri : ~ri.ispusheddown)),
     otherquals |->
         get_actual_clauses(SelectSeq(restrictinfo_list,
                                      LAMBDA ri : ri.ispusheddown))]

IS_OUTER_JOIN(jointype) == jointype \in {"JOIN_LEFT", "JOIN_FULL", "JOIN_RIGHT"}

get_switched_clauses_never(clauses, outerrelids, p) ==
    get_actual_clauses(clauses)

get_switched_clauses_inplace(clauses, outerrelids, p) ==
    [x \in 1 .. Len(clauses) |->
        IF is_subseti(clauses[x].right_relids, outerrelids)
        THEN CommuteClause(clauses[x].clause)
        ELSE clauses[x].clause]

\* a get_switched_clauses() that passes a clause through when its right side
\* refers to no relation at all
get_switched_clauses_nonempty(clauses, outerrelids, p) ==
    [x \in 1 .. Len(clauses) |->
        LET clause == clauses[x].clause
        IN  IF /\ clauses[x].right_relids # {}
               /\ is_subseti(clauses[x].right_relids, outerrelids)
            THEN CommuteClause(
                     [MkNode(Gen(p, 0, x, SiteNo.switched), "OpExpr", 0, 0,
                             clause.opno, clause.type, clause.args)
                         EXCEPT !.opfuncid = InvalidOid])
            ELSE clause]

\* get_switched_clauses(): the bare merge or hash clauses, each commuted on
\* a new operator node when its right side belongs to the outer relation
get_switched_clauses(clauses, outerrelids, p) ==
    [x \in 1 .. Len(clauses) |->
        LET clause == clauses[x].clause
        IN  IF is_subseti(clauses[x].right_relids, outerrelids)
            THEN CommuteClause(
                     [MkNode(Gen(p, 0, x, SiteNo.switched), "OpExpr", 0, 0,
                             clause.opno, clause.type, clause.args)
                         EXCEPT !.opfuncid = InvalidOid])
            ELSE clause]

-----------------------------------------------------------------------------
(* Join plan nodes *)

make_nestloop_swapped(tlist, joinclauses, otherclauses, lefttree, righttree, jointype) ==
    [EmptyPlan("NestLoop") EXCEPT !.targetlist = tlist,
                                  !.qual = joinclauses,
                                  !.lefttree = lefttree,
                                  !.righttree = righttree,
                                  !.jointype = jointype,
                                  !.joinqual = otherclauses]

make_nestloop(tlist, joinclauses, otherclauses, lefttree, righttree, jointype) ==
    [EmptyPlan("NestLoop") EXCEPT !.targetlist = tlist,
                                  !.qual = otherclauses,
                                  !.lefttree = lefttree,
                                  !.righttree = righttree,
                                  !.jointype = jointype,
                                  !.joinqual = joinclauses]

make_hashjoin(tlist, joinclauses, otherclauses, hashclauses, lefttree, righttree, jointype) ==
    [EmptyPlan("HashJoin") EXCEPT !.targetlist = tlist,
                                  !.qual = otherclauses,
                                  !.lefttree = lefttree,
                                  !.righttree = righttree,
                                  !.hashclauses = hashclauses,
                                  !.jointype = jointype,
                                  !.joinqual = joinclauses]

make_hash(tlist, hashkeys, lefttree, lefttreeplan) ==
    LET plan == copy_plan_costsize(EmptyPlan("Hash"), lefttreeplan)
    IN  [plan EXCEPT !.startup_cost = plan.total_cost,
                     !.targetlist = tlist,
                     !.lefttree = lefttree,
                     !.hashkeys = hashkeys]

make_mergejoin(tlist, joinclauses, otherclauses, mergeclauses, lefttree, righttree, jointype) ==
    [EmptyPlan("MergeJoin") EXCEPT !.targetlist = tlist,
                                   !.qual = otherclauses,
                                   !.lefttree = lefttree,
                                   !.righttree = righttree,
                                   !.mergeclauses = mergeclauses,
                                   !.jointype = jointype,
                                   !.joinqual = joinclauses]

\* cost_qual_eval(): startup plus per-tuple cost of evaluating a qual list,
\* one operator evaluation per clause; costs are in units of cpu_tuple_cost
cost_qual_eval(quals) == Len(quals)

\* the cost and size make_result() gives a Result without a subplan
NoSubplanResult ==
    [startup_cost |-> 0, total_cost |-> 1, plan_rows |-> 1, plan_width |-> 0]

\* make_result(): lefttree names the subplan, 0 when there is none
make_result(tlist, resconstantqual, lefttree, subplan) ==
    LET plan == copy_plan_costsize(
                    EmptyPlan("Result"),
                    IF lefttree # 0 THEN subplan ELSE NoSubplanResult)
    IN  [plan EXCEPT
            !.startup_cost = plan.startup_cost + cost_qual_eval(resconstantqual),
            !.total_cost = plan.total_cost + cost_qual_eval(resconstantqual),
            !.targetlist = tlist,
            !.lefttree = lefttree,
            !.resconstantqual = resconstantqual]

make_material(tlist, lefttree) ==
    [EmptyPlan("Material") EXCEPT !.targetlist = tlist, !.lefttree = lefttree]

\* ids of the plan nodes and lists create_plan() adds for join path p; side
\* is 0 for the outer and 1 for the inner child
HashPlanId(p) == 10 * p + 1

SortPlanId(p, side) == 10 * p + 2 + side

ResultPlanId(p, side) == 10 * p + 4 + side

NewListId(p, side) == 10 * p + 6 + side

-----------------------------------------------------------------------------
(* Sort synthesizer *)

Min(S) == CHOOSE q \in S : \A r \in S : q <= r

\* the contents of a target list; NIL is the empty list
TlistOf(tl, id) == IF id = NIL THEN <<>> ELSE tl[id]

SortListId(p, side) == 10 * p + 2 + side

ResultListId(p, side) == 10 * p + 4 + side

\* new_unsorted_tlist(): a copy of a target list, without sort information
new_unsorted_tlist(tlist, g) ==
    [x \in 1 .. Len(tlist) |->
        [resdom |-> [tlist[x].resdom EXCEPT !.reskey = 0, !.reskeyop = 0],
         expr |-> copyObject(tlist[x].expr, g)]]

\* tlist_member(): the position of the first target entry whose expression
\* equals the key, 0 when there is none
tlist_member(key, targetlist) ==
    LET hits == {x \in 1 .. Len(targetlist) : equal(targetlist[x].expr, key)}
    IN  IF hits = {} THEN 0 ELSE Min(hits)

\* cost_sort(): the cost of sorting the input
cost_sort(input_cost, tuples, width) ==
    [startup_cost |-> input_cost + tuples,
     total_cost |-> input_cost + 2 * tuples]

make_sort(tlist, lefttree, lefttreeplan, keycount) ==
    LET plan == copy_plan_costsize(EmptyPlan("Sort"), lefttreeplan)
        sort_path == cost_sort(lefttreeplan.total_cost,
                               lefttreeplan.plan_rows,
                               lefttreeplan.plan_width)
    IN  [plan EXCEPT !.startup_cost = sort_path.startup_cost,
                     !.total_cost = sort_path.total_cost,
                     !.targetlist = tlist,
                     !.lefttree = lefttree,
                     !.keycount = keycount]

mark_sort_key_always(st, idx, pathkey) ==
    [st EXCEPT !.sort_tlist[idx].resdom.reskey = st.numsortkeys + 1,
               !.sort_tlist[idx].resdom.reskeyop = pathkey.sortop,
               !.numsortkeys = st.numsortkeys + 1]

\* lines 1538-1543: the chosen entry gets the next key number and the
\* pathkey's sort operator, unless it is a sort key already
mark_sort_key(st, idx, pathkey) ==
    IF st.sort_tlist[idx].resdom.reskey = 0
    THEN [st EXCEPT !.sort_tlist[idx].resdom.reskey = st.numsortkeys + 1,
                    !.sort_tlist[idx].resdom.reskeyop = pathkey.sortop,
                    !.numsortkeys = st.numsortkeys + 1]
    ELSE st

\* a Result node that takes the input's target list itself, not a copy
insert_result_shared(st, p, side) ==
    [st EXCEPT
        !.pl = (ResultPlanId(p, side) :>
                   make_result(st.tlist, <<>>, st.lefttree,
                               st.pl[st.lefttree])) @@ st.pl,
        !.lefttree = ResultPlanId(p, side)]

\* lines 1500-1504: a Result node over an input that cannot project; its
\* target list is a copy of the input's
insert_result(st, p, side) ==
    LET newlist == IF st.tlist = NIL THEN NIL ELSE ResultListId(p, side)
        copy == new_unsorted_tlist(TlistOf(st.tl, st.tlist),
                                   Gen(p, side, 0, SiteNo.resulttlist))
        res == ResultPlanId(p, side)
    IN  [st EXCEPT
            !.tl = IF newlist = NIL THEN st.tl ELSE (newlist :> copy) @@ st.tl,
            !.tlist = newlist,
            !.pl = (res :> make_result(newlist, <<>>, st.lefttree,
                                       st.pl[st.lefttree])) @@ st.pl,
            !.lefttree = res]

\* lines 1505-1528: a resjunk entry for the key is appended to the input's
\* target list, in place when that list is not NIL, and to the sort's
add_resjunk(st, pathkey, p, side) ==
    LET cur == TlistOf(st.tl, st.tlist)
        tle == TargetEntryOf(Len(cur) + 1, 0, 0, TRUE, pathkey.key)
        newlist == IF st.tlist = NIL THEN NewListId(p, side) ELSE st.tlist
    IN  [st EXCEPT
            !.tl = IF st.tlist = NIL
                   THEN (newlist :> <<tle>>) @@ st.tl
                   ELSE [st.tl EXCEPT ![st.tlist] = Append(cur, tle)],
            !.tlist = newlist,
            !.pl = [st.pl EXCEPT ![st.lefttree].targetlist = newlist],
            !.sort_tlist =
                Append(st.sort_tlist,
                       TargetEntryOf(Len(st.sort_tlist) + 1, 0, 0, TRUE,
                                     pathkey.key))]

\* lines 1494-1543 for a key that is in no target entry: a Result when the
\* input is an Append, the resjunk entries, and the new entry marked
add_sort_entry(st, pathkey, p, side) ==
    mark_sort_key(
        add_resjunk(IF st.pl[st.lefttree].tag = "Append"
                    THEN insert_result(st, p, side)
                    ELSE st,
                    pathkey, p, side),
        Len(st.sort_tlist) + 1, pathkey)

\* lines 1538-1543 for a key found in the sort's target list
mark_found(st, pathkey) ==
    mark_sort_key(st, tlist_member(pathkey.key, st.sort_tlist), pathkey)

\* the body of the loop of make_sort_from_pathkeys() over the pathkeys
sort_one_pathkey(st, keysublist, relids, p, side) ==
    LET inTlist == {j \in 1 .. Len(keysublist) :
                       tlist_member(keysublist[j].key, st.sort_tlist) # 0}
        usable == {j \in 1 .. Len(keysublist) :
                      is_subseti(pull_varnos(keysublist[j].key), relids)}
    IN  IF inTlist # {}
        THEN mark_found(st, keysublist[Min(inTlist)])
        ELSE IF usable = {}
             THEN [st EXCEPT !.err = TRUE]
             ELSE add_sort_entry(st, keysublist[Min(usable)], p, side)

RECURSIVE sort_pathkeys(_, _, _, _, _, _)
sort_pathkeys(st, pathkeys, i, relids, p, side) ==
    IF i > Len(pathkeys) \/ st.err
    THEN st
    ELSE sort_pathkeys(sort_one_pathkey(st, pathkeys[i], relids, p, side),
                       pathkeys, i + 1, relids, p, side)

\* lines 1448-1454: the state of make_sort_from_pathkeys() before its loop
sort_state(pl, tl, lefttree, tlist, p, side) ==
    [pl |-> pl, tl |-> tl, lefttree |-> lefttree, tlist |-> tlist,
     sort_tlist |-> new_unsorted_tlist(TlistOf(tl, tlist),
                                       Gen(p, side, 0, SiteNo.sorttlist)),
     numsortkeys |-> 0, err |-> FALSE]

\* lines 1546-1548: the Sort node over the state the loop ended in; the
\* Sort is plan SortPlanId(p, side)
finish_sort(st, pl, tl, p, side) ==
    IF st.err
    THEN [err |-> TRUE, pl |-> pl, tl |-> tl]
    ELSE [err |-> FALSE,
          tl |-> (SortListId(p, side) :> st.sort_tlist) @@ st.tl,
          pl |-> (SortPlanId(p, side) :>
                     make_sort(SortListId(p, side), st.lefttree,
                               st.pl[st.lefttree], st.numsortkeys)) @@ st.pl]

\* make_sort_from_pathkeys(): the heaps with a Sort (and perhaps a Result)
\* over plan lefttree added
make_sort_from_pathkeys(pl, tl, lefttree, relids, pathkeys, p, side) ==
    finish_sort(
        sort_pathkeys(sort_state(pl, tl, lefttree, pl[lefttree].targetlist,
                                 p, side),
                      pathkeys, 1, relids, p, side),
        pl, tl, p, side)

-----------------------------------------------------------------------------
(* Join plans; each takes the ids of the finished child plans and gives the
   heaps of plan nodes and target lists with the join's nodes added *)

create_nestloop_plan_noreduce(path, p, tlist, joinclauses, otherclauses, outer_plan, inner_plan) ==
    [err |-> FALSE, tl |-> tlists,
     pl |-> (p :> copy_path_costsize(
                      make_nestloop(tlist, joinclauses, otherclauses,
                                    outer_plan, inner_plan, path.jointype),
                      path)) @@ plans]

\* a create_nestloop_plan() that also removes the clauses of an inner
\* IndexScan of several indexes
create_nestloop_plan_anysublists(path, p, tlist, joinclauses, otherclauses, outer_plan, inner_plan) ==
    LET innerscan == plans[inner_plan]
        reduced ==
            IF /\ innerscan.tag = "IndexScan"
               /\ NumRelids(innerscan.indxqualorig) > 1
            THEN set_difference(joinclauses, Flatten(innerscan.indxqualorig))
            ELSE joinclauses
        join_plan == make_nestloop(tlist, reduced, otherclauses, outer_plan,
                                   inner_plan, path.jointype)
    IN  [err |-> FALSE, tl |-> tlists,
         pl |-> (p :> copy_path_costsize(join_plan, path)) @@ plans]

create_nestloop_plan(path, p, tlist, joinclauses, otherclauses, outer_plan, inner_plan) ==
    LET innerscan == plans[inner_plan]
        indxqualorig == innerscan.indxqualorig
        reduced ==
            IF /\ innerscan.tag = "IndexScan"
               /\ Len(indxqualorig) = 1
               /\ NumRelids(indxqualorig) > 1
            THEN set_difference(joinclauses, indxqualorig[1])
            ELSE joinclauses
        join_plan == make_nestloop(tlist, reduced, otherclauses, outer_plan,
                                   inner_plan, path.jointype)
    IN  [err |-> FALSE, tl |-> tlists,
         pl |-> (p :> copy_path_costsize(join_plan, path)) @@ plans]

\* lines 736-741: the outer input sorted, when the path asks for it
sort_outer(path, p, outer_plan) ==
    IF path.outersortkeys # <<>>
    THEN make_sort_from_pathkeys(
             plans, tlists, outer_plan,
             rels[paths[path.outerjoinpath].parent].relids,
             path.outersortkeys, p, 0)
    ELSE [err |-> FALSE, pl |-> plans, tl |-> tlists]

\* lines 743-748: the inner input sorted, when the path asks for it
sort_inner(path, p, inner_plan, sorted) ==
    IF path.innersortkeys # <<>> /\ ~sorted.err
    THEN make_sort_from_pathkeys(
             sorted.pl, sorted.tl, inner_plan,
             rels[paths[path.innerjoinpath].parent].relids,
             path.innersortkeys, p, 1)
    ELSE sorted

\* a MergeJoin built over the inner plan itself, the inner Sort left aside
build_mergejoin_innerunsorted(path, p, tlist, joinclauses, otherclauses, outer_plan, inner_plan, sorted) ==
    LET qpqual == set_difference(joinclauses,
                                 get_actual_clauses(path.path_mergeclauses))
        mergeclauses ==
            get_switched_clauses(path.path_mergeclauses,
                                 rels[paths[path.outerjoinpath].parent].relids,
                                 p)
        join_plan ==
            make_mergejoin(tlist, qpqual, otherclauses, mergeclauses,
                           IF path.outersortkeys # <<>>
                           THEN SortPlanId(p, 0)
                           ELSE outer_plan,
                           inner_plan,
                           path.jointype)
    IN  IF sorted.err
        THEN [err |-> TRUE, pl |-> plans, tl |-> tlists]
        ELSE [err |-> FALSE, tl |-> sorted.tl,
              pl |-> (p :> copy_path_costsize(join_plan, path)) @@ sorted.pl]

\* a MergeJoin built with the merge clauses removed from the join clauses
\* after they were commuted
build_mergejoin_latediff(path, p, tlist, joinclauses, otherclauses, outer_plan, inner_plan, sorted) ==
    LET mergeclauses ==
            get_switched_clauses(path.path_mergeclauses,
                                 rels[paths[path.outerjoinpath].parent].relids,
                                 p)
        join_plan ==
            make_mergejoin(tlist, set_difference(joinclauses, mergeclauses),
                           otherclauses, mergeclauses,
                           IF path.outersortkeys # <<>>
                           THEN SortPlanId(p, 0)
                           ELSE outer_plan,
                           IF path.innersortkeys # <<>>
                           THEN SortPlanId(p, 1)
                           ELSE inner_plan,
                           path.jointype)
    IN  IF sorted.err
        THEN [err |-> TRUE, pl |-> plans, tl |-> tlists]
        ELSE [err |-> FALSE, tl |-> sorted.tl,
              pl |-> (p :> copy_path_costsize(join_plan, path)) @@ sorted.pl]

\* lines 722-730 and 753-761: the MergeJoin node over the sorted inputs
build_mergejoin(path, p, tlist, joinclauses, otherclauses, outer_plan, inner_plan, sorted) ==
    LET qpqual == set_difference(joinclauses,
                                 get_actual_clauses(path.path_mergeclauses))
        mergeclauses ==
            get_switched_clauses(path.path_mergeclauses,
                                 rels[paths[path.outerjoinpath].parent].relids,
                                 p)
        join_plan ==
            make_mergejoin(tlist, qpqual, otherclauses, mergeclauses,
                           IF path.outersortkeys # <<>>
                           THEN SortPlanId(p, 0)
                           ELSE outer_plan,
                           IF path.innersortkeys # <<>>
                           THEN SortPlanId(p, 1)
                           ELSE inner_plan,
                           path.jointype)
    IN  IF sorted.err
        THEN [err |-> TRUE, pl |-> plans, tl |-> tlists]
        ELSE [err |-> FALSE, tl |-> sorted.tl,
              pl |-> (p :> copy_path_costsize(join_plan, path)) @@ sorted.pl]

create_mergejoin_plan(path, p, tlist, joinclauses, otherclauses, outer_plan, inner_plan) ==
    build_mergejoin(path, p, tlist, joinclauses, otherclauses, outer_plan,
                    inner_plan,
                    sort_inner(path, p, inner_plan,
                               sort_outer(path, p, outer_plan)))

create_hashjoin_plan_leftkeys(path, p, tlist, joinclauses, otherclauses, outer_plan, inner_plan) ==
    LET qpqual == set_difference(joinclauses,
                                 get_actual_clauses(path.path_hashclauses))
        hashclauses ==
            get_switched_clauses(path.path_hashclauses,
                                 rels[paths[path.outerjoinpath].parent].relids,
                                 p)
        innerhashkeys == [x \in 1 .. Len(hashclauses) |->
                             get_leftop(hashclauses[x])]
        hash_plan == make_hash(plans[inner_plan].targetlist, innerhashkeys,
                               inner_plan, plans[inner_plan])
        join_plan == make_hashjoin(tlist, qpqual, otherclauses, hashclauses,
                                   outer_plan, HashPlanId(p), path.jointype)
    IN  [err |-> FALSE, tl |-> tlists,
         pl |-> (p :> copy_path_costsize(join_plan, path))
                @@ (HashPlanId(p) :> hash_plan) @@ plans]

create_hashjoin_plan(path, p, tlist, joinclauses, otherclauses, outer_plan, inner_plan) ==
    LET qpqual == set_difference(joinclauses,
                                 get_actual_clauses(path.path_hashclauses))
        hashclauses ==
            get_switched_clauses(path.path_hashclauses,
                                 rels[paths[path.outerjoinpath].parent].relids,
                                 p)
        innerhashkeys == [x \in 1 .. Len(hashclauses) |->
                             get_rightop(hashclauses[x])]
        hash_plan == make_hash(plans[inner_plan].targetlist, innerhashkeys,
                               inner_plan, plans[inner_plan])
        join_plan == make_hashjoin(tlist, qpqual, otherclauses, hashclauses,
                                   outer_plan, HashPlanId(p), path.jointype)
    IN  [err |-> FALSE, tl |-> tlists,
         pl |-> (p :> copy_path_costsize(join_plan, path))
                @@ (HashPlanId(p) :> hash_plan) @@ plans]

\* create_join_plan(): the join plan of path p, whose children are planned
create_join_plan(p) ==
    LET best_join == paths[p]
        join_tlist == rels[best_join.parent].targetlist
        outer_plan == best_join.outerjoinpath
        inner_plan == best_join.innerjoinpath
        split == get_actual_join_clauses(best_join.joinrestrictinfo)
        joinclauses == IF IS_OUTER_JOIN(best_join.jointype)
                       THEN split.joinquals
                       ELSE get_actual_clauses(best_join.joinrestrictinfo)
        otherclauses == IF IS_OUTER_JOIN(best_join.jointype)
                        THEN split.otherquals
                        ELSE <<>>
    IN  IF best_join.pathtype = "T_MergeJoin"
        THEN create_mergejoin_plan(best_join, p, join_tlist, joinclauses,
                                   otherclauses, outer_plan, inner_plan)
        ELSE IF best_join.pathtype = "T_HashJoin"
             THEN create_hashjoin_plan(best_join, p, join_tlist, joinclauses,
                                       otherclauses, outer_plan, inner_plan)
             ELSE create_nestloop_plan(best_join, p, join_tlist, joinclauses,
                                       otherclauses, outer_plan, inner_plan)

\* the plan nodes and lists a join leaves behind
InstallJoin(p, r) ==
    IF r.err
    THEN /\ status' = "error"
         /\ UNCHANGED <<plans, tlists, done>>
    ELSE /\ plans' = r.pl
         /\ tlists' = r.tl
         /\ done' = done + 1
         /\ status' = Finish(p)

\* create_plan() on a join path whose sub-paths are planned
CreateJoinPlan ==
    /\ status = "planning"
    /\ paths[NextPath].pathtype \in JoinTypes
    /\ InstallJoin(NextPath, create_join_plan(NextPath))
    /\ UNCHANGED <<hasSubLinks, rels, paths, best_path, tlists0,
                   limitOffset, limitCount>>

-----------------------------------------------------------------------------
(* Append plans *)

\* a make_append() that takes the startup cost of the last subplan and the
\* width of the first
make_append_lastfirst(appendplans, isTarget, tlist) ==
    LET n == Len(appendplans)
        sub(x) == plans[appendplans[x]]
    IN  [EmptyPlan("Append") EXCEPT
            !.startup_cost = IF n = 0 THEN 0 ELSE sub(n).startup_cost,
            !.total_cost = IF n = 0 THEN 0 ELSE sub(1).total_cost,
            !.plan_rows = IF n = 0 THEN 0 ELSE sub(1).plan_rows,
            !.plan_width = IF n = 0 THEN 0 ELSE sub(1).plan_width,
            !.targetlist = tlist,
            !.appendplans = appendplans,
            !.isTarget = isTarget]

make_append(appendplans, isTarget, tlist) ==
    LET n == Len(appendplans)
        sub(x) == plans[appendplans[x]]
        total[x \in 0 .. n] ==
            IF x = 0 THEN 0 ELSE total[x - 1] + sub(x).total_cost
        rows[x \in 0 .. n] ==
            IF x = 0 THEN 0 ELSE rows[x - 1] + sub(x).plan_rows
        width[x \in 0 .. n] ==
            IF x = 0 THEN 0
            ELSE IF width[x - 1] < sub(x).plan_width
                 THEN sub(x).plan_width
                 ELSE width[x - 1]
    IN  [EmptyPlan("Append") EXCEPT
            !.startup_cost = IF n = 0 THEN 0 ELSE sub(1).startup_cost,
            !.total_cost = total[n],
            !.plan_rows = rows[n],
            !.plan_width = width[n],
            !.targetlist = tlist,
            !.appendplans = appendplans,
            !.isTarget = isTarget]

create_append_plan(p) ==
    make_append(paths[p].subpaths, FALSE, rels[paths[p].parent].targetlist)

\* create_plan() on an AppendPath whose sub-paths are planned
CreateAppendPlan ==
    /\ status = "planning"
    /\ paths[NextPath].pathtype = "T_Append"
    /\ LET p == NextPath
       IN  /\ plans' = (p :> create_append_plan(p)) @@ plans
           /\ done' = done + 1
           /\ status' = Finish(p)
    /\ UNCHANGED <<hasSubLinks, rels, paths, best_path, tlists, tlists0,
                   limitOffset, limitCount>>

-----------------------------------------------------------------------------
(* Result and Material plans *)

\* create_result_plan(): the path may have neither a relation nor a subpath
create_result_plan(p) ==
    make_result(
        IF paths[p].parent # 0 THEN rels[paths[p].parent].targetlist ELSE NIL,
        order_qual_clauses(hasSubLinks, paths[p].constantqual),
        paths[p].subpath,
        IF paths[p].subpath # 0 THEN plans[paths[p].subpath] ELSE NullPlan)

create_material_plan(p) ==
    copy_path_costsize(
        make_material(rels[paths[p].parent].targetlist, paths[p].subpath),
        paths[p])

\* create_plan() on a ResultPath whose sub-path, if any, is planned
CreateResultPlan ==
    /\ status = "planning"
    /\ paths[NextPath].pathtype = "T_Result"
    /\ LET p == NextPath
       IN  /\ plans' = (p :> create_result_plan(p)) @@ plans
           /\ done' = done + 1
           /\ status' = Finish(p)
    /\ UNCHANGED <<hasSubLinks, rels, paths, best_path, tlists, tlists0,
                   limitOffset, limitCount>>

\* create_plan() on a MaterialPath whose sub-path is planned
CreateMaterialPlan ==
    /\ status = "planning"
    /\ paths[NextPath].pathtype = "T_Material"
    /\ LET p == NextPath
       IN  /\ plans' = (p :> create_material_plan(p)) @@ plans
           /\ done' = done + 1
           /\ status' = Finish(p)
    /\ UNCHANGED <<hasSubLinks, rels, paths, best_path, tlists, tlists0,
                   limitOffset, limitCount>>

-----------------------------------------------------------------------------
(* create_plan() on a join of the outer and the inner base relation *)

MaxJoinClauses == 2

JoinSides ==
    {<<"outer", "inner">>, <<"inner", "outer">>, <<"outer", "const">>,
     <<"inner", "inner2">>}

\* a join clause is described by what its operands refer to, by whether it
\* was pushed down to the join, and by whether the path uses it as a merge
\* or hash clause
JoinClauseDescs ==
    [sides : JoinSides, ispusheddown : BOOLEAN, special : BOOLEAN]

JoinOperand(k, side) ==
    IF side = "outer" THEN makeVar(OrigId(k), OuterRelid, 1, 23)
    ELSE IF side = "inner" THEN makeVar(OrigId(k), BaseRelid, 5, 23)
    ELSE IF side = "inner2" THEN makeVar(OrigId(k), BaseRelid, 7, 23)
    ELSE MkNode(OrigId(k), "Const", 0, 0, 0, 23, <<>>)

JoinClause(c, d) ==
    OpClause(200 + 10 * c, 21,
             JoinOperand(200 + 10 * c + 1, d.sides[1]),
             JoinOperand(200 + 10 * c + 2, d.sides[2]))

\* the clause joins the first key column of the inner relation's first
\* index to the outer relation
Indexable(d) == d.sides \in {<<"outer", "inner">>, <<"inner", "outer">>}

InnerKinds == {"seq", "idxRestr", "idxJoin", "idxJoinRestr", "idxJoinOr"}

\* the restriction clause the inner index scan uses
InnerRestriction ==
    IndexClause(1, [key |-> <<"Var", 5>>, keyLeft |-> TRUE, opno |-> 21],
                "Const")

\* the indexqual of the inner index path: the indexable join clauses, the
\* restriction clause, both in one sublist, or one sublist for each
InnerIndexQual(kind, descs) ==
    LET cs == SelectSeq([c \in 1 .. Len(descs) |-> c],
                        LAMBDA c : Indexable(descs[c]))
        jcs == [x \in 1 .. Len(cs) |-> JoinClause(cs[x], descs[cs[x]])]
    IN  IF kind = "idxRestr" THEN <<<<InnerRestriction>>>>
        ELSE IF kind = "idxJoin" THEN <<jcs>>
        ELSE IF kind = "idxJoinRestr" THEN <<jcs \o <<InnerRestriction>>>>
        ELSE <<jcs, <<InnerRestriction>>>>

InnerPathOf(kind, descs) ==
    IF kind = "seq"
    THEN [EmptyPath("T_SeqScan", 2) EXCEPT !.total_cost = 20]
    ELSE LET indexqual == InnerIndexQual(kind, descs)
         IN  [EmptyPath("T_IndexScan", 2) EXCEPT
                 !.startup_cost = 1, !.total_cost = 10, !.rows = 7,
                 !.indexinfo = [i \in 1 .. Len(indexqual) |-> IndexCatalog[1]],
                 !.indexqual = indexqual,
                 !.indexscandir = 1]

InnerRestrictInfoOf(kind) ==
    LET all == (IF kind \in {"idxRestr", "idxJoinRestr"}
                THEN <<InnerRestriction>>
                ELSE <<>>) \o <<ExtraClause(910, FALSE)>>
    IN  [x \in 1 .. Len(all) |-> RestrictInfoOf(all[x], FALSE)]

JoinRestrictInfoOf(descs) ==
    [c \in 1 .. Len(descs) |->
        RestrictInfoOf(JoinClause(c, descs[c]), descs[c].ispusheddown)]

JoinPathOf(pathtype, jointype, descs) ==
    LET ris == JoinRestrictInfoOf(descs)
        cs == SelectSeq([c \in 1 .. Len(descs) |-> c],
                        LAMBDA c : descs[c].special)
        specials == [x \in 1 .. Len(cs) |-> ris[cs[x]]]
    IN  [EmptyPath(pathtype, 3) EXCEPT
            !.startup_cost = 5, !.total_cost = 100,
            !.jointype = jointype,
            !.outerjoinpath = 1, !.innerjoinpath = 2,
            !.joinrestrictinfo = ris,
            !.path_mergeclauses =
                IF pathtype = "T_MergeJoin" THEN specials ELSE <<>>,
            !.path_hashclauses =
                IF pathtype = "T_HashJoin" THEN specials ELSE <<>>]

InitJoin ==
    \E jpathtype \in JoinTypes, jointype \in {"JOIN_INNER", "JOIN_LEFT"},
       kind \in InnerKinds, n \in 0 .. MaxJoinClauses :
      \E descs \in [1 .. n -> JoinClauseDescs] :
        /\ jpathtype = "T_NestLoop" => \A c \in 1 .. n : ~descs[c].special
        /\ jpathtype # "T_NestLoop" => kind \in {"seq", "idxRestr"}
        /\ kind \in {"idxJoin", "idxJoinRestr", "idxJoinOr"}
              => \E c \in 1 .. n : Indexable(descs[c])
        /\ hasSubLinks = FALSE
        /\ rels = (1 :> RelOptInfoOf({OuterRelid}, 1, <<>>, 50, 8))
               @@ (2 :> RelOptInfoOf({BaseRelid}, 2,
                                     InnerRestrictInfoOf(kind), 100, 40))
               @@ (3 :> RelOptInfoOf({OuterRelid, BaseRelid}, 3, <<>>,
                                     500, 48))
        /\ paths = (1 :> [EmptyPath("T_SeqScan", 1) EXCEPT !.total_cost = 20])
                @@ (2 :> InnerPathOf(kind, descs))
                @@ (3 :> JoinPathOf(jpathtype, jointype, descs))
        /\ best_path = 3
        /\ tlists = BaseTlists
        /\ tlists0 = BaseTlists
        /\ limitOffset = NullNode
        /\ limitCount = NullNode
        /\ plans = <<>>
        /\ done = 0
        /\ status = "planning"

NextJoin == CreateScanPlan \/ CreateJoinPlan

SpecJoin == InitJoin /\ [][NextJoin]_vars

-----------------------------------------------------------------------------
(* create_plan() on a merge join that sorts its inputs *)

MaxPathKeys == 2

MaxTlist == 2

\* the expressions pathkeys sort by: columns and a function of the outer
\* relation, and a column of the inner relation
PathKeyExpr(k, what) ==
    IF what = "a" THEN makeVar(OrigId(k), OuterRelid, 1, 23)
    ELSE IF what = "b" THEN makeVar(OrigId(k), OuterRelid, 2, 23)
    ELSE IF what = "f"
         THEN MkNode(OrigId(k), "FuncExpr", 0, 0, 0, 20,
                     <<makeVar(OrigId(k + 1), OuterRelid, 1, 23)>>)
         ELSE makeVar(OrigId(k), BaseRelid, 5, 23)

\* descriptions of pathkey sublists: the expression and the sort operator
\* of each item
PathKeyDescs ==
    {<< <<"a", 97>> >>, << <<"a", 98>> >>, << <<"b", 97>> >>,
     << <<"f", 97>> >>, << <<"i", 97>> >>,
     << <<"i", 97>>, <<"a", 97>> >>, << <<"i", 97>>, <<"f", 98>> >>,
     << <<"f", 98>>, <<"b", 97>> >>}

PathKeysOf(base, descs) ==
    [i \in 1 .. Len(descs) |->
        [j \in 1 .. Len(descs[i]) |->
            [key |-> PathKeyExpr(base + 20 * i + 2 * j, descs[i][j][1]),
             sortop |-> descs[i][j][2]]]]

\* the target list of the outer relation with its first ntl columns
OuterTlist(ntl) ==
    [x \in 1 .. ntl |->
        TargetEntryOf(x, 0, 0, FALSE,
                      makeVar(OrigId(500 + 10 * x), OuterRelid, x, 23))]

SortTlists(ntl) ==
    (4 :> <<TargetEntryOf(1, 0, 0, FALSE,
                          makeVar(OrigId(505), ChildRelid, 1, 23))>>)
    @@ (IF ntl = 0 THEN BaseTlists ELSE (1 :> OuterTlist(ntl)) @@ BaseTlists)

MergeClause ==
    RestrictInfoOf(OpClause(200, 21, JoinOperand(201, "inner"),
                            JoinOperand(202, "outer")), FALSE)

InitSort ==
    \E ntl \in 0 .. MaxTlist, viaAppend \in BOOLEAN, innerSort \in BOOLEAN,
       n \in 0 .. MaxPathKeys :
      \E descs \in [1 .. n -> PathKeyDescs] :
        LET tls == SortTlists(ntl)
        IN  /\ hasSubLinks = FALSE
            /\ rels = (1 :> RelOptInfoOf({OuterRelid},
                                         IF ntl = 0 THEN NIL ELSE 1,
                                         <<>>, 50, 8))
                   @@ (2 :> RelOptInfoOf({BaseRelid}, 2, <<>>, 100, 40))
                   @@ (3 :> RelOptInfoOf({OuterRelid, BaseRelid}, 3, <<>>,
                                         500, 48))
                   @@ (4 :> RelOptInfoOf({ChildRelid}, 4, <<>>, 50, 8))
            /\ paths =
                  (1 :> IF viaAppend
                        THEN [EmptyPath("T_Append", 1) EXCEPT
                                 !.subpaths = <<4>>]
                        ELSE [EmptyPath("T_SeqScan", 1) EXCEPT
                                 !.total_cost = 20])
                  @@ (2 :> [EmptyPath("T_SeqScan", 2) EXCEPT
                               !.total_cost = 20])
                  @@ (3 :> [EmptyPath("T_MergeJoin", 3) EXCEPT
                               !.startup_cost = 5, !.total_cost = 100,
                               !.outerjoinpath = 1, !.innerjoinpath = 2,
                               !.joinrestrictinfo = <<MergeClause>>,
                               !.path_mergeclauses = <<MergeClause>>,
                               !.outersortkeys = PathKeysOf(300, descs),
                               !.innersortkeys =
                                   IF innerSort
                                   THEN PathKeysOf(400, << << <<"i", 97>> >> >>)
                                   ELSE <<>>])
                  @@ (IF viaAppend
                      THEN (4 :> [EmptyPath("T_SeqScan", 4) EXCEPT
                                     !.total_cost = 20])
                      ELSE <<>>)
            /\ best_path = 3
            /\ tlists = tls
            /\ tlists0 = tls
            /\ limitOffset = NullNode
            /\ limitCount = NullNode
            /\ plans = <<>>
            /\ done = 0
            /\ status = "planning"

NextSort == CreateScanPlan \/ CreateAppendPlan \/ CreateJoinPlan

SpecSort == InitSort /\ [][NextSort]_vars

-----------------------------------------------------------------------------
(* create_plan() on Path trees of every variant, well-formed or not *)

\* a restriction clause on a Var of relation relid, with or without a SubPlan
RestrictionOn(k, relid, withSubPlan) ==
    OpClause(k, 21, makeVar(OrigId(k + 1), relid, 9, 23),
             MkNode(OrigId(k + 2),
                    IF withSubPlan THEN "SubPlan" ELSE "Const",
                    0, 0, 0, 23, <<>>))

\* baserestrictinfo of a relation no index is used on: the clause with a
\* SubPlan, if any, is ahead of the one without
PlainRestrictInfoOf(rel, relid, hsl) ==
    LET all == (IF hsl
                THEN <<RestrictionOn(1000 + 10 * rel, relid, TRUE)>>
                ELSE <<>>)
               \o <<RestrictionOn(1004 + 10 * rel, relid, FALSE)>>
    IN  [x \in 1 .. Len(all) |-> RestrictInfoOf(all[x], FALSE)]

\* the kinds of leaf of the trees: the five scans, an IndexPath with a clause
\* that is no binary operator clause, one whose key is no column of the
\* index, and a path with a tag create_plan() does not know
OuterLeafKinds == {"seq", "tid", "subquery", "function", "unknown"}

InnerLeafKinds ==
    {"seq", "tid", "index", "index_lossy", "index_unary", "index_or",
     "index_nokey", "unknown"}

\* the indexqual of an inner leaf
LeafIndexQual(kind) ==
    CASE kind = "index" ->
             << <<IndexClause(1, [key |-> <<"Var", 5>>, keyLeft |-> FALSE,
                                  opno |-> 21], "Const")>> >>
      [] kind = "index_lossy" ->
             << <<IndexClause(1, [key |-> <<"Var", 5>>, keyLeft |-> TRUE,
                                  opno |-> 22], "Const")>> >>
      [] kind = "index_unary" ->
             << <<MkNode(OrigId(10), "OpExpr", 0, 0, 21, 16,
                         <<makeVar(OrigId(11), BaseRelid, 5, 23)>>)>> >>
      [] kind = "index_or" ->
             << <<MkNode(OrigId(10), "Or", 0, 0, 0, 16,
                         <<makeVar(OrigId(11), BaseRelid, 5, 16),
                           makeVar(OrigId(12), BaseRelid, 7, 16)>>)>> >>
      [] kind = "index_nokey" ->
             << <<IndexClause(1, [key |-> <<"Var", 5>>, keyLeft |-> TRUE,
                                  opno |-> 21], "Const")>> >>
      [] OTHER -> <<>>

LeafPath(kind, base) ==
    CASE kind = "seq" ->
             [EmptyPath("T_SeqScan", base) EXCEPT
                 !.startup_cost = 0, !.total_cost = 20 + base]
      [] kind = "tid" ->
             [EmptyPath("T_TidScan", base) EXCEPT
                 !.startup_cost = 0, !.total_cost = 4,
                 !.tideval = <<MkNode(OrigId(50 + base), "Const", 0, 0, 0,
                                      27, <<>>)>>]
      [] kind = "subquery" ->
             [EmptyPath("T_SubqueryScan", 4) EXCEPT
                 !.startup_cost = 2, !.total_cost = 30]
      [] kind = "function" ->
             [EmptyPath("T_FunctionScan", 5) EXCEPT
                 !.startup_cost = 3, !.total_cost = 13]
      [] kind = "unknown" ->
             [EmptyPath("T_Unique", base) EXCEPT !.total_cost = 9]
      [] OTHER ->
             \* the second index of the catalog has column 7 only
             IndexPathOf(1, IF kind = "index_nokey" THEN 2 ELSE 1,
                         LeafIndexQual(kind))

\* the plan of the subquery a subquery relation owns
SubqueryPlans ==
    {NullPlan,
     [EmptyPlan("SeqScan") EXCEPT !.startup_cost = 1, !.total_cost = 25,
                                  !.plan_rows = 35, !.plan_width = 16]}

\* the shapes of tree: one leaf, or a node of each other variant above the
\* leaves
TreeShapes ==
    {"outer", "inner", "material", "result", "result_only", "append",
     "nestloop", "unknown"}

TreeTlists ==
    BaseTlists
    @@ (4 :> <<TargetEntryOf(1, 0, 0, FALSE,
                             makeVar(OrigId(505), SubqueryRelid, 1, 23))>>)
    @@ (5 :> <<TargetEntryOf(1, 0, 0, FALSE,
                             makeVar(OrigId(506), FunctionRelid, 1, 23))>>)

\* the root of a tree over the leaves 1 and 2
RootPath(shape, hsl) ==
    CASE shape = "material" ->
             [EmptyPath("T_Material", 2) EXCEPT
                 !.startup_cost = 1, !.total_cost = 40, !.subpath = 2]
      [] shape = "result" ->
             [EmptyPath("T_Result", 1) EXCEPT
                 !.subpath = 1,
                 !.constantqual =
                     get_actual_clauses(PlainRestrictInfoOf(6, 0, hsl))]
      [] shape = "result_only" ->
             [EmptyPath("T_Result", 0) EXCEPT
                 !.constantqual =
                     get_actual_clauses(PlainRestrictInfoOf(6, 0, hsl))]
      [] shape = "append" ->
             [EmptyPath("T_Append", 1) EXCEPT !.subpaths = <<1, 2>>]
      [] shape = "nestloop" ->
             [EmptyPath("T_NestLoop", 3) EXCEPT
                 !.startup_cost = 1, !.total_cost = 90,
                 !.outerjoinpath = 1, !.innerjoinpath = 2]
      [] OTHER ->
             [EmptyPath("T_Group", 3) EXCEPT !.total_cost = 9]

\* the leaves a tree of the shape has
UsesOuter(shape) == shape \in {"outer", "result", "append", "nestloop"}

UsesInner(shape) == shape \in {"inner", "material", "append", "nestloop"}

InitTree ==
    \E shape \in TreeShapes, ok \in OuterLeafKinds, ik \in InnerLeafKinds,
       hsl \in BOOLEAN, sub \in SubqueryPlans :
        /\ ~UsesOuter(shape) => ok = "seq"
        /\ ~UsesInner(shape) => ik = "seq"
        /\ ok # "subquery" => sub = NullPlan
        /\ hasSubLinks = hsl
        /\ rels =
              (1 :> RelOptInfoOf({OuterRelid}, 1,
                                 PlainRestrictInfoOf(1, OuterRelid, hsl),
                                 50, 8))
              @@ (2 :> RelOptInfoOf(
                          {BaseRelid}, 2,
                          IF LeafIndexQual(ik) # <<>>
                          THEN BaseRestrictInfoOf(LeafIndexQual(ik), "Const",
                                                  hsl)
                          ELSE PlainRestrictInfoOf(2, BaseRelid, hsl),
                          100, 40))
              @@ (3 :> RelOptInfoOf({OuterRelid, BaseRelid}, 3, <<>>,
                                    500, 48))
              @@ (4 :> [RelOptInfoOf({SubqueryRelid}, 4,
                                     PlainRestrictInfoOf(4, SubqueryRelid,
                                                         hsl),
                                     30, 12)
                           EXCEPT !.rtekind = "RTE_SUBQUERY",
                                  !.subplan = sub])
              @@ (5 :> [RelOptInfoOf({FunctionRelid}, 5,
                                     PlainRestrictInfoOf(5, FunctionRelid,
                                                         hsl),
                                     1000, 4)
                           EXCEPT !.rtekind = "RTE_FUNCTION"])
        /\ paths =
              (IF UsesOuter(shape)
               THEN (1 :> LeafPath(ok, 1)) ELSE <<>>)
              @@ (IF UsesInner(shape)
                  THEN (2 :> LeafPath(ik, 2)) ELSE <<>>)
              @@ (IF shape \notin {"outer", "inner"}
                  THEN (3 :> RootPath(shape, hsl)) ELSE <<>>)
        /\ best_path = (CASE shape = "outer" -> 1
                          [] shape = "inner" -> 2
                          [] OTHER -> 3)
        /\ tlists = TreeTlists
        /\ tlists0 = TreeTlists
        /\ limitOffset = NullNode
        /\ limitCount = NullNode
        /\ plans = <<>>
        /\ done = 0
        /\ status = "planning"

\* every kind of input: the trees above, the IndexPaths, the joins and the
\* merge joins with sort keys
InitPlan == InitTree \/ InitIndex \/ InitJoin \/ InitSort

NextPlan ==
    \/ CreateScanPlan
    \/ CreateJoinPlan
    \/ CreateAppendPlan
    \/ CreateResultPlan
    \/ CreateMaterialPlan
    \/ CreatePlanUnknown

SpecPlan == InitPlan /\ [][NextPlan]_vars

-----------------------------------------------------------------------------
(* create_plan() on an AppendPath over scans of differing cost and size *)

MaxChildren == 3

\* startup and total cost, rows and width of a child
ChildSizes ==
    [cost : {<<0, 5>>, <<2, 9>>}, rows : {10, 50}, width : {4, 8}]

InitAppend ==
    \E n \in 0 .. MaxChildren :
        \E size \in [1 .. n -> ChildSizes] :
            /\ hasSubLinks = FALSE
            /\ rels = [x \in 1 .. n + 1 |->
                          IF x = n + 1
                          THEN RelOptInfoOf({OuterRelid}, 1, <<>>, 0, 0)
                          ELSE RelOptInfoOf({ChildRelid + x}, 1, <<>>,
                                            size[x].rows, size[x].width)]
            /\ paths = [x \in 1 .. n + 1 |->
                           IF x = n + 1
                           THEN [EmptyPath("T_Append", n + 1) EXCEPT
                                    !.subpaths = [y \in 1 .. n |-> y]]
                           ELSE [EmptyPath("T_SeqScan", x) EXCEPT
                                    !.startup_cost = size[x].cost[1],
                                    !.total_cost = size[x].cost[2]]]
            /\ best_path = n + 1
            /\ tlists = BaseTlists
            /\ tlists0 = BaseTlists
            /\ limitOffset = NullNode
            /\ limitCount = NullNode
            /\ plans = <<>>
            /\ done = 0
            /\ status = "planning"

NextAppend == CreateScanPlan \/ CreateAppendPlan

SpecAppend == InitAppend /\ [][NextAppend]_vars

-----------------------------------------------------------------------------
(* create_plan() on a ResultPath with a constant qual of any make-up *)

MaxClauses == 3

\* a clause without a subquery, with a SubPlan as an operand, with a
\* SubPlan inside a function call, and with the Param of an InitPlan
ClauseKinds == {"plain", "subplan", "nested", "initplan"}

\* the i-th clause of a qual list
QualClause(i, kind) ==
    LET k == 2000 + 10 * i
        var == makeVar(OrigId(k + 1), OuterRelid, i, 23)
        leaf(tag) == MkNode(OrigId(k + 2), tag, 0, 0, 0, 23, <<>>)
    IN  OpClause(k, 21, var,
                 CASE kind = "plain" -> leaf("Const")
                   [] kind = "subplan" -> leaf("SubPlan")
                   [] kind = "initplan" -> leaf("Param")
                   [] OTHER -> MkNode(OrigId(k + 3), "FuncExpr", 0, 0, 0, 23,
                                      <<leaf("SubPlan")>>))

InitQual ==
    \E n \in 0 .. MaxClauses, hsl \in BOOLEAN :
        \E kinds \in [1 .. n -> ClauseKinds] :
            /\ hasSubLinks = hsl
            /\ rels = <<>>
            /\ paths = (1 :> [EmptyPath("T_Result", 0) EXCEPT
                                 !.constantqual =
                                     [i \in 1 .. n |->
                                         QualClause(i, kinds[i])]])
            /\ best_path = 1
            /\ tlists = <<>>
            /\ tlists0 = <<>>
            /\ limitOffset = NullNode
            /\ limitCount = NullNode
            /\ plans = <<>>
            /\ done = 0
            /\ status = "planning"

NextQual == CreateResultPlan

SpecQual == InitQual /\ [][NextQual]_vars

-----------------------------------------------------------------------------
(* Limit plans *)

\* make_limit() computes with doubles.  Where it does, a value is the
\* fraction [num, den] in lowest terms, den > 0; all values are >= 0.
RECURSIVE GCD(_, _)
GCD(a, b) == IF b = 0 THEN a ELSE GCD(b, a % b)

Q(n, d) == [num |-> n \div GCD(n, d), den |-> d \div GCD(n, d)]

QInt(n) == [num |-> n, den |-> 1]

QAdd(a, b) == Q(a.num * b.den + b.num * a.den, a.den * b.den)

\* a - b, for b <= a
QSub(a, b) == Q(a.num * b.den - b.num * a.den, a.den * b.den)

QMul(a, b) == Q(a.num * b.num, a.den * b.den)

\* a / b, for b > 0
QDiv(a, b) == Q(a.num * b.den, a.den * b.num)

QLt(a, b) == a.num * b.den < b.num * a.den

QLe(a, b) == a.num * b.den <= b.num * a.den

\* (int32) of a double that is not negative
QTrunc(a) == a.num \div a.den

\* lines 1816-1832: the adjustment for a constant offset
\* a limit_offset() that does not cut the offset to the number of rows
limit_offset_noclip(plan, limito) ==
    IF limito.tag = "Const" /\ ~limito.constisnull /\ limito.constvalue > 0
    THEN LET rows == QSub(plan.plan_rows, QInt(limito.constvalue))
         IN  [plan EXCEPT
                 !.startup_cost =
                     IF QLt(QInt(0), plan.plan_rows)
                     THEN QAdd(plan.startup_cost,
                               QDiv(QMul(QSub(plan.total_cost,
                                              plan.startup_cost),
                                         QInt(limito.constvalue)),
                                    plan.plan_rows))
                     ELSE plan.startup_cost,
                 !.plan_rows = IF QLt(rows, QInt(1)) THEN QInt(1) ELSE rows]
    ELSE plan

limit_offset(plan, limito) ==
    IF limito.tag = "Const" /\ ~limito.constisnull /\ limito.constvalue > 0
    THEN LET offset == IF QLt(plan.plan_rows, QInt(limito.constvalue))
                       THEN QTrunc(plan.plan_rows)
                       ELSE limito.constvalue
             rows == QSub(plan.plan_rows, QInt(offset))
         IN  [plan EXCEPT
                 !.startup_cost =
                     IF QLt(QInt(0), plan.plan_rows)
                     THEN QAdd(plan.startup_cost,
                               QDiv(QMul(QSub(plan.total_cost,
                                              plan.startup_cost),
                                         QInt(offset)),
                                    plan.plan_rows))
                     ELSE plan.startup_cost,
                 !.plan_rows = IF QLt(rows, QInt(1)) THEN QInt(1) ELSE rows]
    ELSE plan

\* a limit_count() that leaves the cost as it is and does not raise the row
\* count to 1
limit_count_norows(plan, limitc) ==
    IF limitc.tag = "Const" /\ ~limitc.constisnull /\ limitc.constvalue >= 0
    THEN [plan EXCEPT !.plan_rows = QInt(limitc.constvalue)]
    ELSE plan

\* lines 1833-1849: the adjustment for a constant count
limit_count(plan, limitc) ==
    IF limitc.tag = "Const" /\ ~limitc.constisnull /\ limitc.constvalue >= 0
    THEN LET count == IF QLt(plan.plan_rows, QInt(limitc.constvalue))
                      THEN QTrunc(plan.plan_rows)
                      ELSE limitc.constvalue
         IN  [plan EXCEPT
                 !.total_cost =
                     IF QLt(QInt(0), plan.plan_rows)
                     THEN QAdd(plan.startup_cost,
                               QDiv(QMul(QSub(plan.total_cost,
                                              plan.startup_cost),
                                         QInt(count)),
                                    plan.plan_rows))
                     ELSE plan.total_cost,
                 !.plan_rows = IF count < 1 THEN QInt(1) ELSE QInt(count)]
    ELSE plan

\* make_limit(): lefttree names the plan lefttreeplan
make_limit(tlist, lefttree, lefttreeplan, limito, limitc) ==
    [limit_count(
         limit_offset(copy_plan_costsize(EmptyPlan("Limit"), lefttreeplan),
                      limito),
         limitc)
        EXCEPT !.targetlist = tlist,
               !.lefttree = lefttree,
               !.limitOffset = limito,
               !.limitCount = limitc]

\* the id of the Limit node put on top of the plan of path p
LimitPlanId(p) == 10 * p + 8

\* the planner puts a Limit on the plan create_plan() returned when the
\* query has a LIMIT or an OFFSET
MakeLimit ==
    /\ status = "returned"
    /\ limitOffset # NullNode \/ limitCount # NullNode
    /\ LimitPlanId(best_path) \notin DOMAIN plans
    /\ plans' = (LimitPlanId(best_path) :>
                    make_limit(plans[best_path].targetlist, best_path,
                               plans[best_path], limitOffset, limitCount))
                @@ plans
    /\ UNCHANGED <<hasSubLinks, rels, paths, best_path, tlists, done, status,
                   tlists0, limitOffset, limitCount>>

\* largest LIMIT and OFFSET constant, and largest row estimate
MaxLimit == 4

MaxLimitRows == 3

\* a Const of type int4, a Param (no constant), or no expression
LimitConst(v, isnull) ==
    [tag |-> "Const", constvalue |-> v, constisnull |-> isnull]

LimitNodes ==
    {NullNode, [tag |-> "Param"], LimitConst(1, TRUE)}
    \cup {LimitConst(v, FALSE) : v \in -1 .. MaxLimit}

\* row estimates are doubles, whole or not
LimitRows == {Q(n, 2) : n \in 0 .. 2 * MaxLimitRows}

\* startup and total cost of the plan below the Limit
LimitCosts ==
    {<<QInt(0), QInt(0)>>, <<QInt(0), QInt(10)>>, <<QInt(3), QInt(10)>>,
     <<Q(5, 2), QInt(7)>>}

\* create_plan() has returned the plan of a scan; the query has a LIMIT,
\* an OFFSET or both
InitLimit ==
    \E rows \in LimitRows, cost \in LimitCosts,
       limito \in LimitNodes, limitc \in LimitNodes :
        /\ limito # NullNode \/ limitc # NullNode
        /\ hasSubLinks = FALSE
        /\ rels = (1 :> RelOptInfoOf({OuterRelid}, 1, <<>>, rows, 8))
        /\ paths = (1 :> [EmptyPath("T_SeqScan", 1) EXCEPT
                             !.startup_cost = cost[1],
                             !.total_cost = cost[2]])
        /\ best_path = 1
        /\ tlists = BaseTlists
        /\ tlists0 = BaseTlists
        /\ limitOffset = limito
        /\ limitCount = limitc
        /\ plans = <<>>
        /\ done = 0
        /\ status = "planning"

NextLimit == CreateScanPlan \/ MakeLimit

SpecLimit == InitLimit /\ [][NextLimit]_vars

-----------------------------------------------------------------------------
(* Properties of the plans create_plan() returns *)

\* the plan nodes built so far that are IndexScans; the plan of a path has
\* the path's id
IndexScanPlans == {p \in DOMAIN plans : plans[p].tag = "IndexScan"}

\* the index is lossy for clause j of sublist i of the IndexScan of path p:
\* the lookup is made with the operator the index sees and the opclass of
\* the index column the clause is on
LossyFor(p, i, j) ==
    LET fixed == plans[p].indxqual[i][j]
        index == paths[p].indexinfo[i]
    IN  /\ fixed.args[1].tag = "Var"
        /\ fixed.args[1].varattno \in 1 .. Len(index.classlist)
        /\ op_requires_recheck(fixed.opno,
                               index.classlist[fixed.args[1].varattno])

InQual(p, expr) == \E q \in Range(plans[p].qual) : equal(q, expr)

\* C1 (recheck soundness): if the index is lossy for the operator of some
\* clause of the indexqual, then with several sublists the IndexScan's qual
\* holds the expression OR(AND(sublist 1), ..., AND(sublist n)) of the
\* original indexqual, and with one sublist it holds the original form
\* (not commuted, relation attribute numbers) of every lossy clause.
C1_RecheckSoundness ==
    \A p \in IndexScanPlans :
        LET indexqual == paths[p].indexqual
        IN  (\E i \in 1 .. Len(indexqual) :
                \E j \in 1 .. Len(indexqual[i]) : LossyFor(p, i, j))
            => IF Len(indexqual) > 1
               THEN InQual(p, indxqual_or_expr(indexqual, p))
               ELSE \A j \in 1 .. Len(indexqual[1]) :
                       LossyFor(p, 1, j) => InQual(p, indexqual[1][j])

\* a single-index scan was planned whose lossy clause had its index key on
\* the right, and a non-lossy clause beside it
C1_Witness ==
    \E p \in IndexScanPlans :
        /\ status = "returned"
        /\ Len(paths[p].indexqual) = 1
        /\ \E j, k \in 1 .. Len(paths[p].indexqual[1]) :
              /\ LossyFor(p, 1, j)
              /\ pull_varnos(paths[p].indexqual[1][j].args[1]) # {BaseRelid}
              /\ InQual(p, paths[p].indexqual[1][j])
              /\ ~LossyFor(p, 1, k)

\* C2 (IndexScan left-side invariant): the left operand of every clause of
\* every sublist i of an IndexScan's indxqual is a Var of the scanned
\* relation whose varattno is a key position of the i-th index, 1 for a
\* functional index.
C2_LeftSideInvariant ==
    \A p \in IndexScanPlans :
        \A i \in 1 .. Len(plans[p].indxqual) :
            \A j \in 1 .. Len(plans[p].indxqual[i]) :
                LET clause == plans[p].indxqual[i][j]
                    l == clause.args[1]
                    index == paths[p].indexinfo[i]
                IN  /\ Len(clause.args) = 2
                    /\ l.tag = "Var"
                    /\ l.varno = plans[p].scanrelid
                    /\ 1 <= l.varattno
                    /\ l.varattno <= index.nkeys
                    /\ index.indproc # InvalidOid => l.varattno = 1

\* the index key of a planned clause was on the right and relabelled, and
\* sits at the second column of its index
C2_Witness ==
    \E p \in IndexScanPlans :
        /\ status = "returned"
        /\ \E i \in 1 .. Len(plans[p].indxqual) :
              \E j \in 1 .. Len(plans[p].indxqual[i]) :
                  /\ paths[p].indexqual[i][j].args[2].tag = "RelabelType"
                  /\ plans[p].indxqual[i][j].args[1].varattno = 2

\* the Var of the base relation that is the index key of an original clause
OrigKeyVar(clause) ==
    LET side == IF pull_varnos(clause.args[1]) = {BaseRelid}
                THEN clause.args[1]
                ELSE clause.args[2]
    IN  IF side.tag = "Var" THEN side ELSE side.args[1]

\* C8 (IndexScan length agreement): indxqual has as many sublists as indxid
\* has entries, and the i-th sublist was rewritten against the index whose
\* oid is the i-th entry of indxid: the left Var of each of its clauses
\* names the column of that index that holds the clause's key attribute.
C8_LengthAgreement ==
    \A p \in IndexScanPlans :
        /\ Len(plans[p].indxqual) = Len(plans[p].indxid)
        /\ Len(plans[p].indxqual) = Len(paths[p].indexqual)
        /\ \A i \in 1 .. Len(plans[p].indxqual) :
              LET index == CHOOSE ix \in Range(IndexCatalog) :
                               ix.indexoid = plans[p].indxid[i]
              IN  /\ Len(plans[p].indxqual[i]) = Len(paths[p].indexqual[i])
                  /\ \A j \in 1 .. Len(plans[p].indxqual[i]) :
                        LET l == plans[p].indxqual[i][j].args[1]
                            key == OrigKeyVar(paths[p].indexqual[i][j])
                        IN  IF index.indproc # InvalidOid
                            THEN l.varattno = 1
                            ELSE /\ l.varattno \in 1 .. index.nkeys
                                 /\ index.indexkeys[l.varattno] = key.varattno

\* an IndexScan over two indexes was planned whose first sublist is empty
\* and whose second is not
C8_Witness ==
    \E p \in IndexScanPlans :
        /\ status = "returned"
        /\ Len(plans[p].indxid) = 2
        /\ plans[p].indxqual[1] = <<>>
        /\ plans[p].indxqual[2] # <<>>

-----------------------------------------------------------------------------
(* Properties of join plans *)

\* the plans built so far for join paths; the plan of a path has its id
JoinPlans ==
    {p \in DOMAIN plans :
        plans[p].tag \in {"NestLoop", "MergeJoin", "HashJoin"}}

MergeHashPlans == {p \in JoinPlans : plans[p].tag # "NestLoop"}

\* the merge or hash clauses of a join plan, and the RestrictInfos of the
\* path they were made from
SpecialClauses(p) ==
    IF plans[p].tag = "MergeJoin"
    THEN plans[p].mergeclauses
    ELSE plans[p].hashclauses

PathSpecialClauses(p) ==
    IF paths[p].pathtype = "T_MergeJoin"
    THEN paths[p].path_mergeclauses
    ELSE paths[p].path_hashclauses

OuterRelids(p) == rels[paths[paths[p].outerjoinpath].parent].relids

InnerRelids(p) == rels[paths[paths[p].innerjoinpath].parent].relids

\* the left operand refers only to the outer side, the right only to the
\* inner side
Oriented(p, clause) ==
    /\ pull_varnos(clause.args[1]) \subseteq OuterRelids(p)
    /\ pull_varnos(clause.args[2]) \subseteq InnerRelids(p)

\* the clause joins the two sides: one operand refers to the outer side and
\* only to it, the other to the inner side and only to it
TwoSided(p, clause) ==
    LET l == pull_varnos(clause.args[1])
        r == pull_varnos(clause.args[2])
    IN  /\ l # {}
        /\ r # {}
        /\ \/ l \subseteq OuterRelids(p) /\ r \subseteq InnerRelids(p)
           \/ l \subseteq InnerRelids(p) /\ r \subseteq OuterRelids(p)

RelidsOf(clauses) == UNION {pull_varnos(c) : c \in Range(clauses)}

\* the inner plan of NestLoop p is an IndexScan with one sublist that
\* refers to two or more relations
ReducingInner(p) ==
    LET inner == plans[plans[p].righttree]
    IN  /\ inner.tag = "IndexScan"
        /\ Len(inner.indxqualorig) = 1
        /\ Cardinality(RelidsOf(inner.indxqualorig[1])) >= 2

\* C4 (NestLoop reduction): when the inner plan of a NestLoop is an
\* IndexScan whose indxqualorig has one sublist that refers to two or more
\* relations, no clause of that sublist is, by identity, in the NestLoop's
\* joinqual, whatever the join type.
C4_NestLoopReduction ==
    \A p \in JoinPlans :
        (plans[p].tag = "NestLoop" /\ ReducingInner(p))
            => \A c \in Range(plans[plans[p].righttree].indxqualorig[1]) :
                  ~ptrMember(c, plans[p].joinqual)

\* an outer join was planned as a NestLoop over an index scan that enforces
\* one of the join's own clauses, and another clause stays in joinqual
C4_Witness ==
    /\ status = "returned"
    /\ \E p \in JoinPlans :
          /\ plans[p].tag = "NestLoop"
          /\ plans[p].jointype = "JOIN_LEFT"
          /\ ReducingInner(p)
          /\ plans[p].joinqual # <<>>
          /\ \E x \in 1 .. Len(paths[p].joinrestrictinfo) :
                /\ ~paths[p].joinrestrictinfo[x].ispusheddown
                /\ ptrMember(paths[p].joinrestrictinfo[x].clause,
                             plans[plans[p].righttree].indxqualorig[1])

\* C9 (HashJoin shape): the righttree of every HashJoin is a Hash node whose
\* only child is the plan of the inner sub-path and whose targetlist is the
\* inner plan's; hashkeys[i] is the right operand of hashclauses[i]; the
\* lefttree of the HashJoin is the plan of the outer sub-path.
C9_HashJoinShape ==
    \A p \in JoinPlans :
        plans[p].tag = "HashJoin"
            => /\ plans[p].lefttree = paths[p].outerjoinpath
               /\ plans[p].righttree \in DOMAIN plans
               /\ LET hash == plans[plans[p].righttree]
                  IN  /\ hash.tag = "Hash"
                      /\ hash.lefttree = paths[p].innerjoinpath
                      /\ hash.righttree = 0
                      /\ hash.targetlist
                             = plans[paths[p].innerjoinpath].targetlist
                      /\ Len(hash.hashkeys) = Len(plans[p].hashclauses)
                      /\ \A x \in 1 .. Len(hash.hashkeys) :
                            hash.hashkeys[x] = plans[p].hashclauses[x].args[2]

\* a HashJoin was planned with a hash clause that was commuted: its hash
\* key is the left operand of the path's clause
C9_Witness ==
    /\ status = "returned"
    /\ \E p \in JoinPlans :
          /\ plans[p].tag = "HashJoin"
          /\ \E x \in 1 .. Len(plans[p].hashclauses) :
                /\ plans[plans[p].righttree].hashkeys[x]
                       = paths[p].path_hashclauses[x].clause.args[1]
                /\ pull_varnos(plans[plans[p].righttree].hashkeys[x])
                       = InnerRelids(p)

\* the addresses of the clauses the join specializer of path p takes out of
\* the join clauses: merge or hash clauses, and for a NestLoop the clauses
\* its inner index scan enforces
Consumed(p) ==
    {PathSpecialClauses(p)[x].clause.id :
        x \in 1 .. Len(PathSpecialClauses(p))}
    \cup (IF plans[p].tag = "NestLoop" /\ ReducingInner(p)
          THEN {c.id : c \in Range(plans[plans[p].righttree].indxqualorig[1])}
          ELSE {})

\* the bare clauses of the RestrictInfos that are, or are not, pushed down
ClausesWhere(restrictinfo_list, pushed) ==
    LET sel == SelectSeq(restrictinfo_list,
                         LAMBDA ri : ri.ispusheddown = pushed)
    IN  [x \in 1 .. Len(sel) |-> sel[x].clause]

\* C10 (join clause split): a join plan of an inner join has an empty qual
\* and its joinqual holds, in order, every clause of joinrestrictinfo its
\* specializer did not consume; a join plan of an outer join has as qual
\* exactly the pushed-down clauses, in order, and as joinqual the join's own
\* clauses its specializer did not consume.
C10_JoinClauseSplit ==
    \A p \in JoinPlans :
        LET ris == paths[p].joinrestrictinfo
            all == [x \in 1 .. Len(ris) |-> ris[x].clause]
            kept(cs) == SelectSeq(cs, LAMBDA c : c.id \notin Consumed(p))
        IN  IF paths[p].jointype = "JOIN_INNER"
            THEN /\ plans[p].qual = <<>>
                 /\ plans[p].joinqual = kept(all)
            ELSE /\ plans[p].qual = ClausesWhere(ris, TRUE)
                 /\ plans[p].joinqual = kept(ClausesWhere(ris, FALSE))

\* an outer join was planned that has both a pushed-down clause and a
\* clause of its own that stays in joinqual, the pushed-down one being one
\* its specializer uses
C10_Witness ==
    /\ status = "returned"
    /\ \E p \in JoinPlans :
          /\ paths[p].jointype = "JOIN_LEFT"
          /\ plans[p].qual # <<>>
          /\ plans[p].joinqual # <<>>
          /\ \E c \in Range(plans[p].qual) : c.id \in Consumed(p)

-----------------------------------------------------------------------------
(* Properties of Sort nodes *)

\* the item make_sort_from_pathkeys() chooses from a pathkey sublist: the
\* first whose key is among the available expressions, else the first that
\* refers only to the input's relations
ChosenItem(keysublist, avail, relids) ==
    LET inTlist == {j \in 1 .. Len(keysublist) :
                       \E e \in avail : equal(keysublist[j].key, e)}
        usable == {j \in 1 .. Len(keysublist) :
                      pull_varnos(keysublist[j].key) \subseteq relids}
    IN  IF inTlist # {}
        THEN keysublist[Min(inTlist)]
        ELSE keysublist[Min(usable)]

RECURSIVE ChosenItems(_, _, _, _)
ChosenItems(pathkeys, i, avail, relids) ==
    IF i > Len(pathkeys)
    THEN <<>>
    ELSE LET item == ChosenItem(pathkeys[i], avail, relids)
         IN  <<item>> \o ChosenItems(pathkeys, i + 1,
                                     avail \cup {item.key}, relids)

\* the chosen items without those whose key an earlier one has
FirstUses(items) ==
    LET xs == SelectSeq([x \in 1 .. Len(items) |-> x],
                        LAMBDA x : \A y \in 1 .. x - 1 :
                                      ~equal(items[y].key, items[x].key))
    IN  [r \in 1 .. Len(xs) |-> items[xs[r]]]

\* the sorts of merge join path p: side 0 sorts the outer, 1 the inner input
SortsOf(p) == {side \in {0, 1} : SortPlanId(p, side) \in DOMAIN plans}

SortKeysOf(p, side) ==
    IF side = 0 THEN paths[p].outersortkeys ELSE paths[p].innersortkeys

SortInputRel(p, side) ==
    rels[paths[IF side = 0
               THEN paths[p].outerjoinpath
               ELSE paths[p].innerjoinpath].parent]

\* C5 (sort keys): a Sort with keycount k has exactly k target entries with
\* a non-zero reskey, the reskeys are 1..k, and the entry with reskey r has
\* the expression and the sort operator of the r-th chosen PathKeyItem that
\* did not repeat an earlier chosen expression; repeated ones take no key
\* number.
C5_SortKeys ==
    \A p \in DOMAIN paths :
        \A side \in SortsOf(p) :
            LET sort == plans[SortPlanId(p, side)]
                tl == TlistOf(tlists, sort.targetlist)
                k == sort.keycount
                marked == {x \in 1 .. Len(tl) : tl[x].resdom.reskey # 0}
                input == SortInputRel(p, side)
                avail == {e.expr :
                             e \in Range(TlistOf(tlists0, input.targetlist))}
                uses == FirstUses(ChosenItems(SortKeysOf(p, side), 1, avail,
                                              input.relids))
            IN  /\ Cardinality(marked) = k
                /\ {tl[x].resdom.reskey : x \in marked} = 1 .. k
                /\ k = Len(uses)
                /\ \A x \in marked :
                      /\ equal(tl[x].expr, uses[tl[x].resdom.reskey].key)
                      /\ tl[x].resdom.reskeyop
                             = uses[tl[x].resdom.reskey].sortop

\* a Sort was built from pathkeys one of which repeats an earlier key, and
\* it sorts by an expression that was added as a resjunk entry
C5_Witness ==
    /\ status = "returned"
    /\ \E p \in DOMAIN paths :
          /\ 0 \in SortsOf(p)
          /\ LET sort == plans[SortPlanId(p, 0)]
                 tl == TlistOf(tlists, sort.targetlist)
             IN  /\ sort.keycount >= 1
                 /\ sort.keycount < Len(paths[p].outersortkeys)
                 /\ \E x \in 1 .. Len(tl) :
                       tl[x].resdom.resjunk /\ tl[x].resdom.reskey # 0

\* two target lists are structurally equal
SameTlist(a, b) ==
    /\ Len(a) = Len(b)
    /\ \A x \in 1 .. Len(a) :
          a[x].resdom = b[x].resdom /\ equal(a[x].expr, b[x].expr)

\* C6 (no source mutation): after create_plan() returns, the target list of
\* every RelOptInfo the Path tree refers to is structurally equal to its
\* state before the call, also for MergePaths that request sort keys.
C6_NoSourceMutation ==
    status = "returned"
        => \A r \in DOMAIN rels :
              SameTlist(TlistOf(tlists, rels[r].targetlist),
                        TlistOf(tlists0, rels[r].targetlist))

-----------------------------------------------------------------------------
(* Sharing of nodes between the Path tree and the plan *)

\* the addresses of all expression nodes reachable from the Path tree and
\* the RelOptInfos it refers to, before the call
PathTreeNodeIds ==
    UNION {SeqIds(Flatten(paths[p].indexqual))
           \cup SeqIds(get_actual_clauses(paths[p].joinrestrictinfo))
           \cup SeqIds(get_actual_clauses(paths[p].path_mergeclauses))
           \cup SeqIds(get_actual_clauses(paths[p].path_hashclauses))
           \cup UNION {NodeIds(item.key) :
                          item \in Range(Flatten(paths[p].outersortkeys))
                                   \cup Range(Flatten(paths[p].innersortkeys))}
              : p \in DOMAIN paths}
    \cup UNION {SeqIds(get_actual_clauses(rels[r].baserestrictinfo))
                \cup UNION {NodeIds(e.expr) :
                               e \in Range(TlistOf(tlists0,
                                                   rels[r].targetlist))}
                   : r \in DOMAIN rels}

\* clause x of the merge or hash clauses of plan p is the path's clause
\* commuted
Commuted(p, x) ==
    LET orig == PathSpecialClauses(p)[x].clause
        clause == SpecialClauses(p)[x]
    IN  /\ clause.opno = get_commutator(orig.opno)
        /\ equal(clause.args[1], orig.args[2])
        /\ equal(clause.args[2], orig.args[1])

\* C7 as stated (deep-copy isolation): no node reachable from an
\* IndexScan's indxqual and no node reachable from a commuted merge or hash
\* clause is a node reachable from the original Path tree.
C7_NoSharedNode ==
    \A p \in DOMAIN plans :
        /\ plans[p].tag = "IndexScan"
              => SeqIds(Flatten(plans[p].indxqual)) \cap PathTreeNodeIds = {}
        /\ p \in MergeHashPlans
              => \A x \in 1 .. Len(SpecialClauses(p)) :
                    Commuted(p, x)
                        => NodeIds(SpecialClauses(p)[x]) \cap PathTreeNodeIds
                               = {}

\* C7 (deep-copy isolation): no node reachable from an IndexScan's indxqual
\* is a node of the original Path tree; the operator node of a commuted
\* merge or hash clause is not a node of the Path tree, and its operands are
\* the operand nodes of the path's clause, swapped.
C7_DeepCopyIsolation ==
    \A p \in DOMAIN plans :
        /\ plans[p].tag = "IndexScan"
              => SeqIds(Flatten(plans[p].indxqual)) \cap PathTreeNodeIds = {}
        /\ p \in MergeHashPlans
              => \A x \in 1 .. Len(SpecialClauses(p)) :
                    Commuted(p, x)
                        => LET orig == PathSpecialClauses(p)[x].clause
                               clause == SpecialClauses(p)[x]
                           IN  /\ clause.id \notin PathTreeNodeIds
                               /\ clause.args[1] = orig.args[2]
                               /\ clause.args[2] = orig.args[1]

\* a merge or hash join with a commuted clause was planned over an index
\* scan with a rewritten clause
C7_Witness ==
    /\ status = "returned"
    /\ \E p \in MergeHashPlans :
          /\ \E x \in 1 .. Len(SpecialClauses(p)) :
                /\ Commuted(p, x)
                /\ SpecialClauses(p)[x].args[1].id \in PathTreeNodeIds
          /\ plans[plans[p].lefttree].tag = "SeqScan"
          /\ \E q \in IndexScanPlans : Flatten(plans[q].indxqual) # <<>>

-----------------------------------------------------------------------------
(* Properties of the scan plans: quals *)

\* the scan_clauses create_scan_plan() hands to the builder of path p's plan
ScanClausesOf(p) ==
    order_qual_clauses(
        hasSubLinks,
        get_actual_clauses(rels[paths[p].parent].baserestrictinfo))

\* no clause of the indexqual of the IndexScan of path p needs a recheck
NoLossy(p) ==
    \A i \in 1 .. Len(plans[p].indxqual) :
        \A j \in 1 .. Len(plans[p].indxqual[i]) : ~LossyFor(p, i, j)

\* the members of l that are none of the nodes with an id in ids
WithoutNodes(l, ids) == SelectSeq(l, LAMBDA c : c.id \notin ids)

-----------------------------------------------------------------------------
(* Failure of create_plan() *)

\* the paths of the tree create_plan() is called on
TreePaths == Range(PostOrder(best_path))

UnknownTag(p) == paths[p].pathtype \notin PlanTypes

IsBinaryOp(clause) == clause.tag = "OpExpr" /\ Len(clause.args) = 2

NonBinaryIndexQual(p) ==
    /\ paths[p].pathtype = "T_IndexScan"
    /\ \E clause \in Range(Flatten(paths[p].indexqual)) : ~IsBinaryOp(clause)

\* the operand of a binary index clause that is its index key: the left
\* one if it references the base relation alone, else the right one; a
\* relabelling is looked through
IndexKeyOf(clause, baserelid) ==
    LET side == IF pull_varnos(clause.args[1]) = {baserelid}
                THEN clause.args[1]
                ELSE clause.args[2]
    IN  IF side.tag = "RelabelType" THEN side.args[1] ELSE side

KeyVarNotInIndex(p) ==
    /\ paths[p].pathtype = "T_IndexScan"
    /\ \E i \in 1 .. Len(paths[p].indexqual) :
          \E clause \in Range(paths[p].indexqual[i]) :
              /\ IsBinaryOp(clause)
              /\ LET key == IndexKeyOf(clause, FirstRelid(paths[p].parent))
                     index == paths[p].indexinfo[i]
                 IN  /\ key.tag = "Var"
                     /\ ~ /\ key.varno = FirstRelid(paths[p].parent)
                          /\ \E pos \in 1 .. index.nkeys :
                                index.indexkeys[pos] = key.varattno

\* a pathkey item the sort of the plan of path child can use: its key is
\* in the child's target list or is an expression over the child's relation
UsableItem(item, child) ==
    \/ \E tle \in Range(TlistOf(tlists0, rels[paths[child].parent].targetlist)) :
          equal(tle.expr, item.key)
    \/ pull_varnos(item.key) \subseteq rels[paths[child].parent].relids

NoUsablePathKey(p) ==
    /\ paths[p].pathtype = "T_MergeJoin"
    /\ \/ \E sublist \in Range(paths[p].outersortkeys) :
             \A item \in Range(sublist) :
                 ~UsableItem(item, paths[p].outerjoinpath)
       \/ \E sublist \in Range(paths[p].innersortkeys) :
             \A item \in Range(sublist) :
                 ~UsableItem(item, paths[p].innerjoinpath)

FailureInTree ==
    \E p \in TreePaths :
        \/ UnknownTag(p)
        \/ NonBinaryIndexQual(p)
        \/ KeyVarNotInIndex(p)
        \/ NoUsablePathKey(p)

\* the tag of the plan create_plan() builds for a path tag
PlanTagOf(pathtype) ==
    CASE pathtype = "T_SeqScan" -> "SeqScan"
      [] pathtype = "T_IndexScan" -> "IndexScan"
      [] pathtype = "T_TidScan" -> "TidScan"
      [] pathtype = "T_SubqueryScan" -> "SubqueryScan"
      [] pathtype = "T_FunctionScan" -> "FunctionScan"
      [] pathtype = "T_NestLoop" -> "NestLoop"
      [] pathtype = "T_MergeJoin" -> "MergeJoin"
      [] pathtype = "T_HashJoin" -> "HashJoin"
      [] pathtype = "T_Append" -> "Append"
      [] pathtype = "T_Result" -> "Result"
      [] pathtype = "T_Material" -> "Material"
      [] OTHER -> "none"

\* the plan nodes reachable from plan node n, dangling references included
RECURSIVE PlanNodes(_)
PlanNodes(n) ==
    IF n \notin DOMAIN plans
    THEN {n}
    ELSE {n}
         \cup (IF plans[n].lefttree # 0
               THEN PlanNodes(plans[n].lefttree) ELSE {})
         \cup (IF plans[n].righttree # 0
               THEN PlanNodes(plans[n].righttree) ELSE {})
         \cup UNION {PlanNodes(plans[n].appendplans[x]) :
                        x \in 1 .. Len(plans[n].appendplans)}

\* the plan of the tree is complete: every path has its plan, of the
\* variant of the path, and every node the root's plan reaches exists
FullyBuilt ==
    /\ \A p \in TreePaths :
          /\ p \in DOMAIN plans
          /\ plans[p].tag = PlanTagOf(paths[p].pathtype)
          /\ p \in PlanNodes(best_path)
    /\ PlanNodes(best_path) \subseteq DOMAIN plans

\* C12 (all-or-nothing failure): create_plan() ends in an error, with no
\* plan for the root, if some path of the tree has an unknown tag, an
\* index clause that is no binary operator clause, an index key Var that
\* is no key of its index, or a pathkey sublist without a usable item;
\* otherwise it returns a complete plan tree.  While neither has happened
\* a path of the tree is still to be planned, and the root has no plan.
C12_AllOrNothing ==
    /\ status = "returned" => ~FailureInTree /\ FullyBuilt
    /\ status = "error" => FailureInTree /\ best_path \notin DOMAIN plans
    /\ status = "planning" =>
          /\ done < Len(PostOrder(best_path))
          /\ best_path \notin DOMAIN plans

\* planning failed on the second leaf of a tree after the first leaf was
\* planned: plans exist, none is returned
C12_Witness ==
    /\ status = "error"
    /\ done > 0
    /\ \E p \in TreePaths : NonBinaryIndexQual(p)
    /\ best_path \notin DOMAIN plans

-----------------------------------------------------------------------------
(* Cost and size of inserted nodes *)

RECURSIVE SeqSum(_)
SeqSum(s) == IF s = <<>> THEN 0 ELSE Head(s) + SeqSum(Tail(s))

\* the largest member of a sequence of naturals, 0 for the empty one
SeqMax(s) == IF s = <<>> THEN 0 ELSE CHOOSE q \in Range(s) : \A r \in Range(s) : r <= q

AppendPlans == {p \in DOMAIN plans : plans[p].tag = "Append"}

\* C13 (Append cost aggregation): the plan_width of an Append is the
\* largest plan_width of its subplans, its plan_rows and total_cost are the
\* sums of theirs, its startup_cost is that of the first subplan, all four
\* are 0 without subplans, and appendplans are the plans of the subpaths
\* in the order of the subpaths.
C13_AppendCost ==
    \A p \in AppendPlans :
        LET kids == plans[p].appendplans
            field(f) == [x \in 1 .. Len(kids) |-> plans[kids[x]][f]]
        IN  /\ kids = paths[p].subpaths
            /\ plans[p].plan_width = SeqMax(field("plan_width"))
            /\ plans[p].plan_rows = SeqSum(field("plan_rows"))
            /\ plans[p].total_cost = SeqSum(field("total_cost"))
            /\ plans[p].startup_cost =
                   IF kids = <<>> THEN 0 ELSE plans[kids[1]].startup_cost

\* an Append over three subplans was returned whose widest subplan is
\* neither the first nor the last and whose first subplan has a startup
\* cost other than the others'
C13_Witness ==
    \E p \in AppendPlans :
        LET kids == plans[p].appendplans
        IN  /\ status = "returned"
            /\ Len(kids) = 3
            /\ plans[kids[2]].plan_width > plans[kids[1]].plan_width
            /\ plans[kids[2]].plan_width > plans[kids[3]].plan_width
            /\ plans[kids[1]].startup_cost # plans[kids[2]].startup_cost
            /\ plans[p].plan_width = plans[kids[2]].plan_width

LimitPlans == {n \in DOMAIN plans : plans[n].tag = "Limit"}

\* the Limit has a count that is a constant, not null and not negative, and
\* no offset
ConstCountOnly(n) ==
    /\ plans[n].limitOffset = NullNode
    /\ plans[n].limitCount.tag = "Const"
    /\ ~plans[n].limitCount.constisnull
    /\ plans[n].limitCount.constvalue >= 0

QMin(a, b) == IF QLt(b, a) THEN b ELSE a

QMax(a, b) == IF QLt(a, b) THEN b ELSE a

\* total_cost of the Limit is within the costs of its child
CostWithinChild(n) ==
    LET child == plans[plans[n].lefttree]
    IN  /\ QLe(child.startup_cost, plans[n].total_cost)
        /\ QLe(plans[n].total_cost, child.total_cost)

\* C14 as stated (Limit proportionality): with a constant count c >= 0 and
\* no offset, plan_rows of the Limit is min(c, plan_rows of the child) and
\* at least 1, and its total_cost is within the child's startup_cost and
\* total_cost.
C14_LimitRowsAreMin ==
    \A n \in LimitPlans :
        ConstCountOnly(n) =>
            LET child == plans[plans[n].lefttree]
                c == QInt(plans[n].limitCount.constvalue)
            IN  /\ plans[n].plan_rows = QMin(c, child.plan_rows)
                /\ QLe(QInt(1), plans[n].plan_rows)
                /\ CostWithinChild(n)

\* C14 (Limit proportionality): with a constant count c >= 0 and no
\* offset, plan_rows of the Limit is the smaller of c and the whole part of
\* the child's plan_rows, raised to 1 if that is less than 1, and its
\* total_cost is within the child's startup_cost and total_cost.
C14_LimitProportionality ==
    \A n \in LimitPlans :
        ConstCountOnly(n) =>
            LET child == plans[plans[n].lefttree]
                c == QInt(plans[n].limitCount.constvalue)
            IN  /\ plans[n].plan_rows =
                       QMax(QInt(1),
                            QMin(c, QInt(QTrunc(child.plan_rows))))
                /\ CostWithinChild(n)

\* a Limit whose count exceeds a row estimate that is no whole number: the
\* rows are the whole part, the cost is strictly between the child's costs
C14_Witness ==
    \E n \in LimitPlans :
        LET child == plans[plans[n].lefttree]
        IN  /\ ConstCountOnly(n)
            /\ QLt(child.plan_rows, QInt(plans[n].limitCount.constvalue))
            /\ child.plan_rows.den # 1
            /\ plans[n].plan_rows = QInt(2)
            /\ QLt(child.startup_cost, plans[n].total_cost)
            /\ QLt(plans[n].total_cost, child.total_cost)

-----------------------------------------------------------------------------
(* Scan plans and their relations *)

ScanTags == {"SeqScan", "IndexScan", "TidScan", "SubqueryScan", "FunctionScan"}

ScanPlans == {n \in DOMAIN plans : plans[n].tag \in ScanTags}

\* the kind of range-table entry a scan variant reads
RtekindOf(tag) ==
    CASE tag = "SubqueryScan" -> "RTE_SUBQUERY"
      [] tag = "FunctionScan" -> "RTE_FUNCTION"
      [] OTHER -> "RTE_RELATION"

-----------------------------------------------------------------------------
(* Clause ordering *)

\* the clause lists create_plan() orders: the constant quals of the
\* ResultPaths and the restrictions of the relations of the scans
OrderedLists ==
    {paths[p].constantqual : p \in DOMAIN paths}
    \cup {get_actual_clauses(rels[paths[p].parent].baserestrictinfo) :
             p \in {q \in DOMAIN paths : paths[q].parent # 0}}

\* C16 (idempotence of clause ordering): ordering an ordered clause list
\* again leaves it as it is, whatever hasSubLinks is.
C16_OrderIdempotent ==
    \A L \in OrderedLists :
        \A hsl \in BOOLEAN :
            order_qual_clauses(hsl, order_qual_clauses(hsl, L))
                = order_qual_clauses(hsl, L)

\* a Result was returned whose constant qual was reordered: two clauses
\* with a SubPlan, one of them inside a function call, went behind a clause
\* without
C16_Witness ==
    /\ status = "returned"
    /\ plans[best_path].tag = "Result"
    /\ Len(plans[best_path].resconstantqual) = 3
    /\ plans[best_path].resconstantqual # paths[best_path].constantqual
    /\ ~contain_subplans(plans[best_path].resconstantqual[1])
    /\ contain_subplans(plans[best_path].resconstantqual[2])
    /\ plans[best_path].resconstantqual[3].args[2].tag = "FuncExpr"
    /\ order_qual_clauses(hasSubLinks, plans[best_path].resconstantqual)
           = plans[best_path].resconstantqual

\* no clause with a SubPlan reference is ahead of one without
SubPlansLast(qual) ==
    \A i, j \in 1 .. Len(qual) :
        i < j => ~(contain_subplans(qual[i]) /\ ~contain_subplans(qual[j]))

\* C17 (SubPlan clauses last): when the query has sublinks, in the qual of
\* every scan plan, the final qual of an IndexScan included, no clause
\* with a SubPlan reference is ahead of a clause without one.
C17_SubPlanClausesLast ==
    hasSubLinks => \A n \in ScanPlans : SubPlansLast(plans[n].qual)

\* the restriction clause of scan_clauses an indexqual of several sublists
\* was generated from: the one that is OR(AND(sublist 1), ...)
OrRestrictionsOf(p) ==
    {c \in Range(ScanClausesOf(p)) :
        equal(c, indxqual_or_expr(paths[p].indexqual, p))}

\* the clauses of scan_clauses the index scan of path p handles, when its
\* index quals were generated from scan_clauses
HandledByIndex(p) ==
    IF Len(paths[p].indexqual) = 1
    THEN {c \in Range(ScanClausesOf(p)) :
             c.id \in {d.id : d \in Range(paths[p].indexqual[1])}}
    ELSE OrRestrictionsOf(p)

GeneratedFromScanClauses(p) ==
    IF Len(paths[p].indexqual) = 1
    THEN /\ paths[p].indexqual[1] # <<>>
         /\ \A d \in Range(paths[p].indexqual[1]) :
               ptrMember(d, ScanClausesOf(p))
    ELSE OrRestrictionsOf(p) # {}

\* C18 (no duplicate of an index qual): for an IndexScan whose index quals
\* were generated from scan_clauses and have no lossy operator, every
\* clause of scan_clauses the index does not handle is in the qual, and
\* the clauses it handles are not: none of the clauses of the one sublist,
\* and with several sublists not the OR restriction they were made from.
C18_NoDuplicateOfIndexQual ==
    \A p \in IndexScanPlans :
        (NoLossy(p) /\ GeneratedFromScanClauses(p)) =>
            /\ \A c \in Range(ScanClausesOf(p)) \ HandledByIndex(p) :
                  ptrMember(c, plans[p].qual)
            /\ \A c \in HandledByIndex(p) : ~InQual(p, c)

-----------------------------------------------------------------------------
(* Shape of the rewritten index quals *)

\* the original clause is rewritten with its operands swapped
Swapped(clause, baserelid) == pull_varnos(clause.args[1]) # {baserelid}

\* the position in the index of the key of an original clause
KeyPosition(clause, baserelid, index) ==
    IF index.indproc # InvalidOid
    THEN 1
    ELSE Min({pos \in 1 .. index.nkeys :
                 index.indexkeys[pos] = IndexKeyOf(clause, baserelid).varattno})

\* the rewritten form of an original clause, as the claim describes it:
\* operator, position of the key and the operand that is not the key
RewriteOf(clause, baserelid, index) ==
    [opno |-> IF Swapped(clause, baserelid)
              THEN get_commutator(clause.opno)
              ELSE clause.opno,
     keypos |-> KeyPosition(clause, baserelid, index),
     other |-> IF Swapped(clause, baserelid)
               THEN clause.args[1]
               ELSE clause.args[2]]

\* the lookup the claim describes: operator of the rewritten clause,
\* operator class of the matched index key
RecheckNeeded(clause, baserelid, index) ==
    op_requires_recheck(
        RewriteOf(clause, baserelid, index).opno,
        index.classlist[RewriteOf(clause, baserelid, index).keypos])

\* the recheck clauses of the qual of the IndexScan of path p: the clauses
\* made while planning p
RecheckQuals(p) ==
    {q \in Range(plans[p].qual) : Len(q.id) > 1 /\ q.id[1] = p}

\* C19 (index-qual rewrite shape): indxqual of an IndexScan has a sublist
\* for every sublist of the path's indexqual, with a clause for every
\* clause, in order; a clause is rewritten with operands swapped and
\* operator commuted exactly when its left operand does not reference the
\* base relation alone; the left operand of the rewritten clause is the
\* Var of the key's position in the index, its right operand is the other
\* operand, unchanged in structure; and a clause is rechecked exactly when
\* the index is lossy for the rewritten operator and the operator class of
\* the matched key.
C19_RewriteShape ==
    \A p \in IndexScanPlans :
        LET indexqual == paths[p].indexqual
            fixed == plans[p].indxqual
            baserelid == FirstRelid(paths[p].parent)
            rw(i, j) == RewriteOf(indexqual[i][j], baserelid,
                                  paths[p].indexinfo[i])
            lossy(i, j) == RecheckNeeded(indexqual[i][j], baserelid,
                                         paths[p].indexinfo[i])
        IN  /\ Len(fixed) = Len(indexqual)
            /\ \A i \in 1 .. Len(indexqual) :
                  /\ Len(fixed[i]) = Len(indexqual[i])
                  /\ \A j \in 1 .. Len(indexqual[i]) :
                        /\ fixed[i][j].opno = rw(i, j).opno
                        /\ equal(fixed[i][j].args[1],
                                 makeVar(<<>>, baserelid, rw(i, j).keypos,
                                         fixed[i][j].args[1].type))
                        /\ equal(fixed[i][j].args[2], rw(i, j).other)
            /\ IF Len(indexqual) = 1
               THEN \A j \in 1 .. Len(indexqual[1]) :
                       lossy(1, j)
                           <=> \E q \in RecheckQuals(p) :
                                   equal(q, indexqual[1][j])
               ELSE (\E i \in 1 .. Len(indexqual) :
                        \E j \in 1 .. Len(indexqual[i]) : lossy(i, j))
                        <=> RecheckQuals(p) # {}

\* an IndexScan was returned with a clause that was swapped and a clause
\* that was not; the swapped one is rechecked although the index is not
\* lossy for its original operator, and its key is the second index column
C19_Witness ==
    \E p \in IndexScanPlans :
        /\ status = "returned"
        /\ Len(paths[p].indexqual) = 1
        /\ \E j, k \in 1 .. Len(paths[p].indexqual[1]) :
              LET cj == paths[p].indexqual[1][j]
                  ck == paths[p].indexqual[1][k]
                  index == paths[p].indexinfo[1]
              IN  /\ Swapped(cj, BaseRelid)
                  /\ ~Swapped(ck, BaseRelid)
                  /\ plans[p].indxqual[1][j].args[1].varattno = 2
                  /\ RecheckNeeded(cj, BaseRelid, index)
                  /\ ~op_requires_recheck(cj.opno, index.classlist[2])
                  /\ \E q \in RecheckQuals(p) : equal(q, cj)

-----------------------------------------------------------------------------
(* Frame of get_switched_clauses *)

\* the right side of path clause x of join p belongs to the outer relation
RightSideIsOuter(p, x) ==
    PathSpecialClauses(p)[x].right_relids \subseteq OuterRelids(p)

\* C20 (get_switched_clauses): the merge or hash clauses of a join plan are
\* as many as the path's, in the same order; clause x is a new operator
\* node holding the original's argument nodes swapped, the commutator of
\* its operator and no opfuncid exactly when the right_relids of the x-th
\* RestrictInfo are a subset of the outer relids (an empty set included),
\* and is the original clause node otherwise; no node of the result is an
\* altered node of the input.
C20_SwitchedClausesFrame ==
    \A p \in MergeHashPlans :
        /\ Len(SpecialClauses(p)) = Len(PathSpecialClauses(p))
        /\ \A x \in 1 .. Len(SpecialClauses(p)) :
              LET orig == PathSpecialClauses(p)[x].clause
                  clause == SpecialClauses(p)[x]
              IN  IF RightSideIsOuter(p, x)
                  THEN /\ clause.id \notin PathTreeNodeIds
                       /\ clause.tag = "OpExpr"
                       /\ clause.opno = get_commutator(orig.opno)
                       /\ clause.opfuncid = InvalidOid
                       /\ clause.type = orig.type
                       /\ clause.args = <<orig.args[2], orig.args[1]>>
                  ELSE clause = orig

\* a join was planned from two merge or hash clauses: the first commuted
\* although its right side refers to no relation, the second passed through
\* with its opfuncid
C20_Witness ==
    /\ status = "returned"
    /\ \E p \in MergeHashPlans :
          /\ Len(SpecialClauses(p)) = 2
          /\ RightSideIsOuter(p, 1)
          /\ PathSpecialClauses(p)[1].right_relids = {}
          /\ PathSpecialClauses(p)[1].clause.opfuncid # InvalidOid
          /\ SpecialClauses(p)[1].opfuncid = InvalidOid
          /\ ~RightSideIsOuter(p, 2)
          /\ SpecialClauses(p)[2].opfuncid # InvalidOid

-----------------------------------------------------------------------------
(* Removal of the merge and hash clauses from the join clauses *)

\* the join clauses create_join_plan hands to the builder of join p: the
\* join's own quals for an outer join, every clause otherwise
JoinClausesOf(p) ==
    IF IS_OUTER_JOIN(paths[p].jointype)
    THEN get_actual_join_clauses(paths[p].joinrestrictinfo).joinquals
    ELSE get_actual_clauses(paths[p].joinrestrictinfo)

\* C21 (merge/hash clause removal): in every MergeJoin or HashJoin plan no
\* bare clause of the path's merge or hash clauses is a node of joinqual,
\* and joinqual is the join clauses without those nodes, in their order;
\* the nodes removed are the path's own, not the commuted ones.
C21_SpecialClausesRemoved ==
    \A p \in MergeHashPlans :
        LET stripped == get_actual_clauses(PathSpecialClauses(p))
        IN  /\ \A x \in 1 .. Len(stripped) :
                  ~ptrMember(stripped[x], plans[p].joinqual)
            /\ plans[p].joinqual
                   = SelectSeq(JoinClausesOf(p),
                               LAMBDA c : ~ptrMember(c, stripped))

\* a join was planned whose only merge or hash clause was commuted; its
\* original is gone from joinqual, which keeps another clause of the same
\* structure
C21_Witness ==
    /\ status = "returned"
    /\ \E p \in MergeHashPlans :
          /\ Len(SpecialClauses(p)) = 1
          /\ RightSideIsOuter(p, 1)
          /\ SpecialClauses(p)[1].id # PathSpecialClauses(p)[1].clause.id
          /\ ptrMember(PathSpecialClauses(p)[1].clause, JoinClausesOf(p))
          /\ Len(plans[p].joinqual) = 1
          /\ equal(plans[p].joinqual[1], PathSpecialClauses(p)[1].clause)

-----------------------------------------------------------------------------
(* Sorts under a MergeJoin *)

MergeJoinPlans == {p \in JoinPlans : plans[p].tag = "MergeJoin"}

\* the input of merge join plan p on a side: 0 the outer, 1 the inner
ChildOf(p, side) ==
    IF side = 0 THEN plans[p].lefttree ELSE plans[p].righttree

SubPathOf(p, side) ==
    IF side = 0 THEN paths[p].outerjoinpath ELSE paths[p].innerjoinpath

\* the expressions a Sort sorts by, in the order of their key numbers
SortKeyExprs(sort) ==
    LET tl == TlistOf(tlists, sort.targetlist)
    IN  [r \in 1 .. sort.keycount |->
            (CHOOSE x \in 1 .. Len(tl) : tl[x].resdom.reskey = r)]

\* the Sort is over the plan of the sub-path, directly or through one
\* Result node
SortIsOver(sort, sub) ==
    \/ sort.lefttree = sub
    \/ /\ plans[sort.lefttree].tag = "Result"
       /\ plans[sort.lefttree].lefttree = sub

\* the Sort on a side of merge join p sorts by the items chosen from that
\* side's sort keys with that side's relids
BuiltFromSide(p, side) ==
    LET sort == plans[ChildOf(p, side)]
        tl == TlistOf(tlists, sort.targetlist)
        input == SortInputRel(p, side)
        avail == {e.expr : e \in Range(TlistOf(tlists0, input.targetlist))}
        uses == FirstUses(ChosenItems(SortKeysOf(p, side), 1, avail,
                                      input.relids))
    IN  /\ sort.keycount = Len(uses)
        /\ \A r \in 1 .. sort.keycount :
              /\ equal(tl[SortKeyExprs(sort)[r]].expr, uses[r].key)
              /\ tl[SortKeyExprs(sort)[r]].resdom.reskeyop = uses[r].sortop

\* C22 (MergeJoin sort insertion): the input of a MergeJoin on a side is a
\* Sort exactly when the MergePath has sort keys for that side; the Sort is
\* over the plan of that side's sub-path, directly or through one Result,
\* and sorts by that side's sort keys chosen with that side's relids;
\* without sort keys the input is the plan of the sub-path itself, with the
\* target list it was built with.
C22_SortInsertion ==
    \A p \in MergeJoinPlans :
        \A side \in {0, 1} :
            IF SortKeysOf(p, side) # <<>>
            THEN /\ plans[ChildOf(p, side)].tag = "Sort"
                 /\ SortIsOver(plans[ChildOf(p, side)], SubPathOf(p, side))
                 /\ BuiltFromSide(p, side)
            ELSE /\ ChildOf(p, side) = SubPathOf(p, side)
                 /\ plans[ChildOf(p, side)].tag # "Sort"
                 /\ plans[ChildOf(p, side)].targetlist
                        = SortInputRel(p, side).targetlist
                 /\ TlistOf(tlists, SortInputRel(p, side).targetlist)
                        = TlistOf(tlists0, SortInputRel(p, side).targetlist)

\* a MergeJoin was planned with a Sort over a Result on its outer side,
\* made from two or more pathkeys, and a Sort directly over the scan on its
\* inner side
C22_Witness ==
    /\ status = "returned"
    /\ \E p \in MergeJoinPlans :
          /\ plans[plans[p].lefttree].tag = "Sort"
          /\ plans[plans[plans[p].lefttree].lefttree].tag = "Result"
          /\ Len(paths[p].outersortkeys) >= 2
          /\ plans[plans[p].righttree].tag = "Sort"
          /\ plans[plans[p].righttree].lefttree = paths[p].innerjoinpath

-----------------------------------------------------------------------------
(* Sort over an input that cannot project *)

\* the sorts whose input plan is an Append
AppendSorts ==
    {ps \in (DOMAIN paths) \X {0, 1} :
        /\ ps[2] \in SortsOf(ps[1])
        /\ plans[SubPathOf(ps[1], ps[2])].tag = "Append"}

\* some pathkey of the sort has no item whose expression is in the target
\* list the input plan had
NeedsNewEntry(p, side) ==
    \E i \in 1 .. Len(SortKeysOf(p, side)) :
        \A j \in 1 .. Len(SortKeysOf(p, side)[i]) :
            tlist_member(SortKeysOf(p, side)[i][j].key,
                         TlistOf(tlists0, SortInputRel(p, side).targetlist))
                = 0

\* the expression nodes of a target list
TlistNodeIds(tl) == UNION {NodeIds(tl[x].expr) : x \in 1 .. Len(tl)}

\* C23 (Sort over an Append): when a pathkey of a Sort over an Append has
\* no expression in the Append's target list, one Result stands between the
\* Sort and the Append, however many pathkeys need an entry; the Result's
\* target list starts with a copy of the Append's, on new nodes, the
\* Append's list is as it was, and every entry added to the Result's list is
\* a resjunk entry with the resno and the expression of the entry at the
\* same place of the Sort's list; when every pathkey has an expression in
\* the Append's list the Sort is directly over the Append.
C23_ResultOverAppend ==
    \A ps \in AppendSorts :
        LET p == ps[1]
            side == ps[2]
            append == SubPathOf(p, side)
            sort == plans[SortPlanId(p, side)]
            sort_tlist == TlistOf(tlists, sort.targetlist)
            orig == TlistOf(tlists0, SortInputRel(p, side).targetlist)
        IN  /\ plans[append].targetlist = SortInputRel(p, side).targetlist
            /\ TlistOf(tlists, plans[append].targetlist) = orig
            /\ IF NeedsNewEntry(p, side)
               THEN LET result == plans[sort.lefttree]
                        tlist == TlistOf(tlists, result.targetlist)
                    IN  /\ result.tag = "Result"
                        /\ result.lefttree = append
                        /\ result.targetlist # plans[append].targetlist
                        /\ Len(tlist) = Len(sort_tlist)
                        /\ Len(tlist) > Len(orig)
                        /\ SameTlist(SubSeq(tlist, 1, Len(orig)), orig)
                        /\ TlistNodeIds(SubSeq(tlist, 1, Len(orig)))
                               \cap TlistNodeIds(orig) = {}
                        /\ \A x \in Len(orig) + 1 .. Len(tlist) :
                              /\ tlist[x].resdom.resjunk
                              /\ sort_tlist[x].resdom.resjunk
                              /\ tlist[x].resdom.resno = x
                              /\ sort_tlist[x].resdom.resno = x
                              /\ tlist[x].expr = sort_tlist[x].expr
               ELSE sort.lefttree = append

\* a Sort over an Append with a non-empty target list was built from
\* pathkeys two of which needed a new entry: one Result, two resjunk entries
C23_Witness ==
    /\ status = "returned"
    /\ \E ps \in AppendSorts :
          LET sort == plans[SortPlanId(ps[1], ps[2])]
              tlist == TlistOf(tlists, plans[sort.lefttree].targetlist)
              orig == TlistOf(tlists0,
                              SortInputRel(ps[1], ps[2]).targetlist)
          IN  /\ NeedsNewEntry(ps[1], ps[2])
              /\ orig # <<>>
              /\ Len(tlist) = Len(orig) + 2
              /\ plans[sort.lefttree].tag = "Result"

-----------------------------------------------------------------------------
(* Cost and size of scan plans *)

\* the four cost and size fields of a plan
CostSize(plan) ==
    <<plan.startup_cost, plan.total_cost, plan.plan_rows, plan.plan_width>>

\* C24 (scan cost provenance): a SeqScan, TidScan or FunctionScan has the
\* costs of its path and the rows and width of the path's relation; an
\* IndexScan has the same but the rows of the IndexPath; a SubqueryScan has
\* the costs, rows and width of the subplan it owns, all zero when there is
\* none.
C24_ScanCostProvenance ==
    \A n \in ScanPlans :
        LET path == paths[n]
            rel == rels[path.parent]
        IN  CASE plans[n].tag = "SubqueryScan" ->
                     /\ plans[n].subplan = rel.subplan
                     /\ CostSize(plans[n])
                            = IF rel.subplan = NullPlan
                              THEN <<0, 0, 0, 0>>
                              ELSE CostSize(rel.subplan)
              [] plans[n].tag = "IndexScan" ->
                     CostSize(plans[n])
                         = <<path.startup_cost, path.total_cost, path.rows,
                             rel.width>>
              [] OTHER ->
                     CostSize(plans[n])
                         = <<path.startup_cost, path.total_cost, rel.rows,
                             rel.width>>

\* a join of a SubqueryScan, whose subplan costs differ from its path's,
\* and an IndexScan, whose path's rows differ from its relation's, was
\* returned
C24_Witness ==
    /\ status = "returned"
    /\ plans[best_path].tag = "NestLoop"
    /\ LET outer == plans[best_path].lefttree
           inner == plans[best_path].righttree
       IN  /\ plans[outer].tag = "SubqueryScan"
           /\ plans[outer].subplan # NullPlan
           /\ plans[outer].startup_cost # paths[outer].startup_cost
           /\ plans[outer].total_cost # paths[outer].total_cost
           /\ plans[outer].plan_rows # rels[paths[outer].parent].rows
           /\ plans[outer].plan_width # rels[paths[outer].parent].width
           /\ plans[inner].tag = "IndexScan"
           /\ paths[inner].rows # rels[paths[inner].parent].rows

-----------------------------------------------------------------------------
(* Limit: the adjustment for an offset *)

\* the expression is a constant that is not null and at least min
AdjustingConst(node, min) ==
    /\ node.tag = "Const"
    /\ ~node.constisnull
    /\ node.constvalue >= min

\* the part of the range from startup to total cost that corresponds to k
\* of the rows; nothing when there are no rows
CostShare(startup, total, k, rows) ==
    IF QLt(QInt(0), rows)
    THEN QDiv(QMul(QSub(total, startup), k), rows)
    ELSE QInt(0)

\* cost and size after an offset of o rows was taken from rows with costs
\* startup and total
AfterOffset(cs, o) ==
    [startup_cost |->
         QAdd(cs.startup_cost,
              CostShare(cs.startup_cost, cs.total_cost,
                        QMin(QInt(o), QInt(QTrunc(cs.plan_rows))),
                        cs.plan_rows)),
     total_cost |-> cs.total_cost,
     plan_rows |-> QMax(QInt(1), QSub(cs.plan_rows, QInt(o))),
     plan_width |-> cs.plan_width]

\* cost and size after a count of c rows was applied
AfterCount(cs, c) ==
    [startup_cost |-> cs.startup_cost,
     total_cost |->
         IF QLt(QInt(0), cs.plan_rows)
         THEN QAdd(cs.startup_cost,
                   CostShare(cs.startup_cost, cs.total_cost,
                             QMin(QInt(c), QInt(QTrunc(cs.plan_rows))),
                             cs.plan_rows))
         ELSE cs.total_cost,
     plan_rows |-> QMax(QInt(1), QMin(QInt(c), QInt(QTrunc(cs.plan_rows)))),
     plan_width |-> cs.plan_width]

CostSizeOf(plan) ==
    [startup_cost |-> plan.startup_cost, total_cost |-> plan.total_cost,
     plan_rows |-> plan.plan_rows, plan_width |-> plan.plan_width]

\* C25 as stated (Limit offset adjustment): with a constant offset o >= 0
\* that is not null, and no count, plan_rows of the Limit is the child's
\* minus o, raised to 1 if less, and startup_cost is the child's advanced by
\* the fraction min(1, o / child plan_rows) of the child's cost range.
C25_OffsetFromZero ==
    \A n \in LimitPlans :
        LET child == plans[plans[n].lefttree]
        IN  AdjustingConst(plans[n].limitOffset, 0)
                /\ plans[n].limitCount = NullNode
            => /\ plans[n].plan_rows
                      = QMax(QInt(1),
                             QSub(child.plan_rows,
                                  QInt(plans[n].limitOffset.constvalue)))
               /\ QLt(QInt(0), child.plan_rows)
                     => plans[n].startup_cost
                            = QAdd(child.startup_cost,
                                   QMul(QSub(child.total_cost,
                                             child.startup_cost),
                                        QMin(QInt(1),
                                             QDiv(QInt(plans[n].limitOffset
                                                           .constvalue),
                                                  child.plan_rows))))

\* C25 (Limit offset adjustment): a constant offset o > 0 that is not null
\* makes plan_rows the child's minus o, raised to 1 if less, and advances
\* startup_cost by the share of the child's cost range that min(o, whole
\* part of the child's plan_rows) of the child's rows have; a constant
\* count >= 0 that is not null is then applied to the rows and the
\* startup_cost so adjusted; any other offset or count adjusts nothing, so
\* that without a positive constant offset and a non-negative constant
\* count all four cost and size fields are the child's.
C25_OffsetAdjustment ==
    \A n \in LimitPlans :
        LET child == CostSizeOf(plans[plans[n].lefttree])
            offs == IF AdjustingConst(plans[n].limitOffset, 1)
                    THEN AfterOffset(child, plans[n].limitOffset.constvalue)
                    ELSE child
            both == IF AdjustingConst(plans[n].limitCount, 0)
                    THEN AfterCount(offs, plans[n].limitCount.constvalue)
                    ELSE offs
        IN  CostSizeOf(plans[n]) = both

\* a Limit with an offset and a count that together are less than the
\* child's rows: startup_cost was advanced into the child's cost range and
\* total_cost was cut to the share of the count in what was left
C25_Witness ==
    \E n \in LimitPlans :
        LET child == plans[plans[n].lefttree]
        IN  /\ AdjustingConst(plans[n].limitOffset, 1)
            /\ AdjustingConst(plans[n].limitCount, 1)
            /\ QLt(QInt(plans[n].limitOffset.constvalue
                         + plans[n].limitCount.constvalue),
                    child.plan_rows)
            /\ QLt(child.startup_cost, plans[n].startup_cost)
            /\ QLt(plans[n].startup_cost, plans[n].total_cost)
            /\ QLt(plans[n].total_cost, child.total_cost)
            /\ plans[n].plan_rows = QInt(plans[n].limitCount.constvalue)

-----------------------------------------------------------------------------
(* Clause ordering is a stable partition *)

ResultPlans == {n \in DOMAIN plans : plans[n].tag = "Result"} \cap DOMAIN paths

\* how often a node is in a list
Occurrences(c, list) == Cardinality({x \in 1 .. Len(list) : list[x] = c})

\* C26 (order_qual_clauses is a stable partition): the constant qual of a
\* Result plan is the path's constant qual itself when the query has no
\* sublinks; otherwise it holds the same clauses as often, those without a
\* SubPlan reference first and those with one after them, each group in
\* the order it had in the path's list.
C26_StablePartition ==
    \A n \in ResultPlans :
        LET clauses == paths[n].constantqual
            ordered == plans[n].resconstantqual
        IN  IF ~hasSubLinks
            THEN ordered = clauses
            ELSE /\ Len(ordered) = Len(clauses)
                 /\ \A c \in Range(clauses) \cup Range(ordered) :
                       Occurrences(c, ordered) = Occurrences(c, clauses)
                 /\ SubPlansLast(ordered)
                 /\ SelectSeq(ordered, contain_subplans)
                        = SelectSeq(clauses, contain_subplans)
                 /\ SelectSeq(ordered, LAMBDA c : ~contain_subplans(c))
                        = SelectSeq(clauses, LAMBDA c : ~contain_subplans(c))

\* a Result was returned for a query with sublinks whose constant qual had
\* a clause with a SubPlan first, then one that refers to an InitPlan only,
\* then a plain one: the SubPlan clause went last, the other two kept
\* their order
C26_Witness ==
    /\ status = "returned"
    /\ hasSubLinks
    /\ \E n \in ResultPlans :
          LET clauses == paths[n].constantqual
              ordered == plans[n].resconstantqual
          IN  /\ Len(clauses) = 3
              /\ contain_subplans(clauses[1])
              /\ clauses[2].args[2].tag = "Param"
              /\ clauses[3].args[2].tag = "Const"
              /\ ordered = <<clauses[2], clauses[3], clauses[1]>>

-----------------------------------------------------------------------------
(* Conservation of the join clauses *)

\* the clause is a bare merge or hash clause of the path of join p and the
\* plan holds it, as it is or commuted, among its merge or hash clauses
KeptAsSpecial(p, c) ==
    /\ p \in MergeHashPlans
    /\ \E x \in 1 .. Len(PathSpecialClauses(p)) :
          /\ PathSpecialClauses(p)[x].clause.id = c.id
          /\ x <= Len(SpecialClauses(p))
          /\ \/ SpecialClauses(p)[x] = c
             \/ Commuted(p, x)

\* the clause is a clause of the one sublist of the inner IndexScan of
\* NestLoop p, and that sublist refers to two or more relations
EnforcedByInnerIndex(p, c) ==
    /\ plans[p].tag = "NestLoop"
    /\ ReducingInner(p)
    /\ ptrMember(c, plans[plans[p].righttree].indxqualorig[1])

\* C27 (join clause conservation): every bare clause of the joinrestrictinfo
\* of the path of a join plan is a node of the plan's joinqual or qual,
\* unless it is a merge or hash clause of the path, which the plan holds
\* among its merge or hash clauses, perhaps commuted, or a clause of the
\* one multi-relation sublist of the inner IndexScan of a NestLoop; a
\* NestLoop over any other inner plan has every join clause in joinqual or
\* qual.
C27_JoinClauseConservation ==
    \A p \in JoinPlans :
        LET all == get_actual_clauses(paths[p].joinrestrictinfo)
            kept == plans[p].joinqual \o plans[p].qual
        IN  /\ \A x \in 1 .. Len(all) :
                  \/ ptrMember(all[x], kept)
                  \/ KeptAsSpecial(p, all[x])
                  \/ EnforcedByInnerIndex(p, all[x])
            /\ plans[p].tag = "NestLoop" /\ ~ReducingInner(p)
                  => \A x \in 1 .. Len(all) : ptrMember(all[x], kept)

\* a NestLoop over an IndexScan of two indexes was returned with a join
\* clause that is in the IndexScan's indxqualorig and still in joinqual
C27_Witness ==
    /\ status = "returned"
    /\ \E p \in JoinPlans :
          LET inner == plans[plans[p].righttree]
          IN  /\ plans[p].tag = "NestLoop"
              /\ inner.tag = "IndexScan"
              /\ Len(inner.indxqualorig) = 2
              /\ \E c \in Range(plans[p].joinqual) :
                    ptrMember(c, Flatten(inner.indxqualorig))

====
